---- MODULE Spec2Model ----
(***************************************************************************)
(* A/B index optimizer: the job engine (AgentOrchestrator, IndexTunerAgent, *)
(* ValidatorAgent, TigerService) and the HTTP server's job store.           *)
(*                                                                         *)
(* JavaScript runs every continuation (the code between two awaits) to      *)
(* completion, so one action of the model is one continuation of one job.   *)
(* Strings that the code takes apart (identifiers) are sequences of        *)
(* one-character strings; strings it only compares are TLA+ strings.       *)
(***************************************************************************)
EXTENDS Integers, Sequences, FiniteSets, TLC

\* ------------------------------------------------------------------ bounds
MaxJobs == 2
MaxHttpJobs == 2
MaxTime == 4800000
MaxTenths == 210      \* improvement percentages examined: -21.0 .. 21.0 in tenths
MaxSamples == 2       \* samples per strategy in an examined comparison
MaxMeasured == 2      \* queries in an examined call of runPerformanceTests
MaxIdLen == 4         \* characters of an examined identifier
MaxFragment == 9      \* tokens of an examined piece of a query text
MaxDepth == 2         \* nesting depth of the child plans of an examined plan tree
MaxLate == 500        \* milliseconds a timer callback of the client may run late

\* null/undefined of a string-valued field; an object-valued field is None or Some(v)
NULL == "null"
None == <<>>
Some(v) == <<v>>

JobIds == 1..MaxJobs
Slots == {"A", "B"}

\* ------------------------------------------------------- identifier strings
Str_idx == <<"i", "d", "x", "_">>
Str_us == <<"_">>
Str_composite == <<"_", "c", "o", "m", "p", "o", "s", "i", "t", "e">>
Str_partial == <<"_", "p", "a", "r", "t", "i", "a", "l">>

LowerLetters == <<"a","b","c","d","e","f","g","h","i","j","k","l","m",
                  "n","o","p","q","r","s","t","u","v","w","x","y","z">>
UpperLetters == <<"A","B","C","D","E","F","G","H","I","J","K","L","M",
                  "N","O","P","Q","R","S","T","U","V","W","X","Y","Z">>
Digits == {"0","1","2","3","4","5","6","7","8","9"}

IsLower(c) == \E i \in 1..26 : LowerLetters[i] = c
IsUpper(c) == \E i \in 1..26 : UpperLetters[i] = c
\* the character class [a-zA-Z0-9_]
IsWordChar(c) == IsLower(c) \/ IsUpper(c) \/ c \in Digits \/ c = "_"

toUpperCase(s) ==
  [i \in 1..Len(s) |->
     IF IsLower(s[i]) THEN UpperLetters[CHOOSE k \in 1..26 : LowerLetters[k] = s[i]]
     ELSE s[i]]

\* a keyword list that lacks DROP
reservedKeywordsWithoutDrop ==
  { <<"S","E","L","E","C","T">>, <<"I","N","S","E","R","T">>,
    <<"U","P","D","A","T","E">>, <<"D","E","L","E","T","E">>,
    <<"C","R","E","A","T","E">>,
    <<"A","L","T","E","R">>, <<"T","A","B","L","E">>,
    <<"D","A","T","A","B","A","S","E">> }

reservedKeywords ==
  { <<"S","E","L","E","C","T">>, <<"I","N","S","E","R","T">>,
    <<"U","P","D","A","T","E">>, <<"D","E","L","E","T","E">>,
    <<"D","R","O","P">>, <<"C","R","E","A","T","E">>,
    <<"A","L","T","E","R">>, <<"T","A","B","L","E">>,
    <<"D","A","T","A","B","A","S","E">> }

\* a call's outcome: a returned value or a thrown Error with its message
Ok(v) == [ok |-> TRUE, val |-> Some(v), msg |-> NULL]
Throw(m) == [ok |-> FALSE, val |-> None, msg |-> m]
Val(r) == r.val[1]

\* a replace without the g flag: only the first match is removed
replaceFirstOnly(identifier) ==
  IF \E i \in 1..Len(identifier) : ~IsWordChar(identifier[i])
  THEN LET first == CHOOSE i \in 1..Len(identifier) :
                      /\ ~IsWordChar(identifier[i])
                      /\ \A k \in 1..(i - 1) : IsWordChar(identifier[k])
       IN SubSeq(identifier, 1, first - 1) \o SubSeq(identifier, first + 1, Len(identifier))
  ELSE identifier

\* identifier.replace(/[^a-zA-Z0-9_]/g, ''): every match is removed
replaceGlobal(identifier) == SelectSeq(identifier, IsWordChar)

\* IndexTunerAgent.sanitizeIdentifier: the checks in the order of the code
\* (the empty sequence is the empty string, which !identifier rejects).
sanitizeIdentifier(identifier) ==
  IF identifier = <<>>
  THEN Throw("Invalid identifier")
  ELSE LET sanitized == replaceGlobal(identifier)
       IN IF Len(sanitized) > 0 /\ sanitized[1] \in Digits
          THEN Throw("Identifier cannot start with a number")
          ELSE IF toUpperCase(sanitized) \in reservedKeywords
          THEN Throw("Cannot use SQL reserved keyword as identifier")
          ELSE IF Len(sanitized) = 0
          THEN Throw("Identifier cannot be empty after sanitization")
          ELSE Ok(sanitized)

\* ValidatorAgent.sanitizeIdentifier: the same checks but the keyword list
validatorSanitizeIdentifier(identifier) ==
  IF identifier = <<>>
  THEN Throw("Invalid identifier")
  ELSE LET sanitized == replaceGlobal(identifier)
       IN IF Len(sanitized) > 0 /\ sanitized[1] \in Digits
          THEN Throw("Identifier cannot start with a number")
          ELSE IF Len(sanitized) = 0
          THEN Throw("Identifier cannot be empty after sanitization")
          ELSE Ok(sanitized)

\* ------------------------------------------------------ strategy generator
\* a slice that keeps every entry
sliceAll(s, n) == s

\* the first n entries of a sequence: Array.prototype.slice(0, n)
slice0(s, n) == SubSeq(s, 1, IF Len(s) < n THEN Len(s) ELSE n)

\* the first thrown outcome of a sequence of outcomes, if any
FirstThrow(rs) ==
  IF \E i \in 1..Len(rs) : ~rs[i].ok
  THEN Some(rs[CHOOSE i \in 1..Len(rs) :
                ~rs[i].ok /\ \A k \in 1..(i-1) : rs[k].ok])
  ELSE None

\* A statement is the sequence of the parts of its template literal: the
\* literal text between two interpolations, and the interpolated values.
Lit(s) == [lit |-> s]
Hole(v) == [id |-> v]

RECURSIVE join(_)
\* columns.join(', ')
join(columns) ==
  IF columns = <<>> THEN <<>>
  ELSE IF Len(columns) = 1 THEN <<Hole(columns[1])>>
  ELSE <<Hole(columns[1]), Lit(", ")>> \o join(Tail(columns))

\* the name of an index: idx_${table}_${column}${suffix}, or idx_${table}${suffix}
IndexName(table, column, suffix) ==
  <<Lit("idx_"), Hole(table)>>
    \o (IF column = None THEN <<>> ELSE <<Lit("_"), Hole(column[1])>>)
    \o (IF suffix = "" THEN <<>> ELSE <<Lit(suffix)>>)

\* CREATE INDEX ${name} ON ${table} (${columns}); and, for a partial index,
\* CREATE INDEX ${name} ON ${table} (${column}) WHERE ${column} IS NOT NULL;
CreateIndexSql(name, table, columns, predicate) ==
  <<Lit("CREATE INDEX ")>> \o name \o <<Lit(" ON "), Hole(table), Lit(" (")>>
    \o join(columns)
    \o (IF predicate = None THEN <<Lit(")")>>
        ELSE <<Lit(") WHERE "), Hole(predicate[1]), Lit(" IS NOT NULL")>>)
    \o <<Lit(";")>>

\* IndexTunerAgent.generateBasicStrategy
generateBasicStrategy(analysis) ==
  LET table == sanitizeIdentifier(analysis.tableName)
      cols == slice0(analysis.patterns.whereColumns, 2)
      san == [i \in 1..Len(cols) |-> sanitizeIdentifier(cols[i])]
  IN IF ~table.ok THEN Throw(table.msg)
     ELSE IF FirstThrow(san) # None THEN Throw(FirstThrow(san)[1].msg)
     ELSE LET t == Val(table) IN
       Ok([name |-> "Basic Single-Column Strategy",
           indexes |->
             [i \in 1..Len(cols) |->
                [name |-> Str_idx \o t \o Str_us \o Val(san[i]),
                 sql |-> CreateIndexSql(IndexName(t, Some(Val(san[i])), ""),
                                        t, <<Val(san[i])>>, None),
                 type |-> "btree",
                 columns |-> <<cols[i]>>]],
           estimatedSize |-> Len(cols) * 50,
           complexity |-> "low"])

\* IndexTunerAgent.generateAdvancedStrategy
generateAdvancedStrategy(analysis) ==
  LET table == sanitizeIdentifier(analysis.tableName)
      whereColumns == analysis.patterns.whereColumns
      orderColumns == analysis.patterns.orderByColumns
      hasComposite == Len(whereColumns) > 0 /\ Len(orderColumns) > 0
      hasPartial == Len(whereColumns) > 0
      compositeColumns == slice0(whereColumns, 2) \o slice0(orderColumns, 1)
      sanComposite == IF hasComposite
                      THEN [i \in 1..Len(compositeColumns) |->
                              sanitizeIdentifier(compositeColumns[i])]
                      ELSE <<>>
      sanMain == IF hasPartial THEN <<sanitizeIdentifier(whereColumns[1])>> ELSE <<>>
  IN IF ~table.ok THEN Throw(table.msg)
     ELSE IF FirstThrow(sanComposite) # None THEN Throw(FirstThrow(sanComposite)[1].msg)
     ELSE IF FirstThrow(sanMain) # None THEN Throw(FirstThrow(sanMain)[1].msg)
     ELSE LET t == Val(table)
              composite ==
                IF hasComposite
                THEN << [name |-> Str_idx \o t \o Str_composite,
                         sql |-> CreateIndexSql(IndexName(t, None, "_composite"), t,
                                   [i \in 1..Len(compositeColumns) |-> Val(sanComposite[i])],
                                   None),
                         type |-> "btree",
                         columns |-> compositeColumns] >>
                ELSE <<>>
              partial ==
                IF hasPartial
                THEN << [name |-> Str_idx \o t \o Str_us \o Val(sanMain[1]) \o Str_partial,
                         sql |-> CreateIndexSql(
                                   IndexName(t, Some(Val(sanMain[1])), "_partial"),
                                   t, <<Val(sanMain[1])>>, Some(Val(sanMain[1]))),
                         type |-> "btree_partial",
                         columns |-> <<whereColumns[1]>>] >>
                ELSE <<>>
          IN Ok([name |-> "Advanced Composite Strategy",
                 indexes |-> composite \o partial,
                 estimatedSize |-> (Len(composite) + Len(partial)) * 75,
                 complexity |-> "high"])

\* IndexTunerAgent.generateIndexStrategies: strategy A is built first, so its
\* exception is the one that escapes.
generateIndexStrategies(analysis) ==
  LET a == generateBasicStrategy(analysis)
      b == generateAdvancedStrategy(analysis)
  IN IF ~a.ok THEN Throw(a.msg)
     ELSE IF ~b.ok THEN Throw(b.msg)
     ELSE Ok([strategyA |-> Val(a), strategyB |-> Val(b)])

\* ------------------------------------------------------- query analyzer
\* A query text is the sequence of its tokens: a word (a maximal run of
\* [A-Za-z0-9_]), one whitespace character, or one other character; no two
\* words are adjacent. After normalisation the only whitespace is a single
\* space between two other tokens.
Space == <<" ">>

\* the keywords the regular expressions spell out
Kw ==
  [where |-> <<"w","h","e","r","e">>, order |-> <<"o","r","d","e","r">>,
   by |-> <<"b","y">>, group |-> <<"g","r","o","u","p">>,
   limit |-> <<"l","i","m","i","t">>, join |-> <<"j","o","i","n">>,
   on |-> <<"o","n">>, isin |-> <<"i","n">>, like |-> <<"l","i","k","e">>,
   between |-> <<"b","e","t","w","e","e","n">>,
   asc |-> <<"a","s","c">>, desc |-> <<"d","e","s","c">>]

toLowerCase(s) ==
  [i \in 1..Len(s) |->
     IF IsUpper(s[i]) THEN LowerLetters[CHOOSE k \in 1..26 : UpperLetters[k] = s[i]]
     ELSE s[i]]

\* \w+ covers the token
IsWord(t) == t # <<>> /\ \A i \in 1..Len(t) : IsWordChar(t[i])
StartsWith(t, p) == Len(t) >= Len(p) /\ SubSeq(t, 1, Len(p)) = p
EndsWith(t, p) == Len(t) >= Len(p) /\ SubSeq(t, Len(t) - Len(p) + 1, Len(t)) = p
\* the k-th token, or no token after the end of the text
tok(n, k) == IF k \in 1..Len(n) THEN n[k] ELSE <<>>
Least(S) == CHOOSE x \in S : \A y \in S : x <= y

\* query.toLowerCase().replace(/\s+/g, ' ').trim()
normalize(query) ==
  LET RECURSIVE collapse(_, _)
      collapse(ts, afterSpace) ==
        IF ts = <<>> THEN <<>>
        ELSE IF Head(ts) \in {<<" ">>, <<"\n">>}
        THEN (IF afterSpace THEN <<>> ELSE <<Space>>) \o collapse(Tail(ts), TRUE)
        ELSE <<toLowerCase(Head(ts))>> \o collapse(Tail(ts), FALSE)
      c == collapse(query, TRUE)
  IN IF c # <<>> /\ c[Len(c)] = Space THEN SubSeq(c, 1, Len(c) - 1) ELSE c

\* where a lazy (.+?) that starts at token `from` ends: before the first later
\* position at which the alternatives that follow it match (matching[k] says
\* whether they match at position k), or at the end ($)
lazyEnd(n, from, matching) ==
  LET ends == {k \in (from + 1)..Len(n) : matching[k]} IN
  IF ends = {} THEN Len(n) + 1 ELSE Least(ends)

\* normalized.match(/where\s+(.+?)(?:\s+order\s+by|\s+group\s+by|\s+limit|$)/):
\* null, or the match with its capture
whereMatch(n) ==
  LET starts == {i \in 1..Len(n) :
                   EndsWith(n[i], Kw.where) /\ tok(n, i + 1) = Space /\ i + 2 <= Len(n)}
      End(m, k) ==
        /\ m[k] = Space
        /\ \/ /\ tok(m, k + 1) \in {Kw.order, Kw.group}
              /\ tok(m, k + 2) = Space
              /\ StartsWith(tok(m, k + 3), Kw.by)
           \/ StartsWith(tok(m, k + 1), Kw.limit)
  IN IF starts = {} THEN None
     ELSE LET i == Least(starts)
              e == lazyEnd(n, i + 2, [k \in 1..Len(n) |-> End(n, k)])
          IN Some(SubSeq(n, i + 2, e - 1))

\* normalized.match(/order\s+by\s+(.+?)(?:\s+limit|$)/)
orderMatch(n) ==
  LET starts == {i \in 1..Len(n) :
                   /\ EndsWith(n[i], Kw.order) /\ tok(n, i + 1) = Space
                   /\ tok(n, i + 2) = Kw.by /\ tok(n, i + 3) = Space /\ i + 4 <= Len(n)}
      End(m, k) == m[k] = Space /\ StartsWith(tok(m, k + 1), Kw.limit)
  IN IF starts = {} THEN None
     ELSE LET i == Least(starts)
              e == lazyEnd(n, i + 4, [k \in 1..Len(n) |-> End(n, k)])
          IN Some(SubSeq(n, i + 4, e - 1))

\* normalized.match(/join\s+\w+\s+on\s+(.+?)(?:\s+where|\s+order|\s+group|$)/g):
\* null, or the matched texts in order (each runs from `join` to the end of the
\* alternative that ended it; the search goes on after it)
joinMatches(n) ==
  LET End(m, k) ==
        m[k] = Space /\ \E kw \in {Kw.where, Kw.order, Kw.group} : StartsWith(tok(m, k + 1), kw)
      RECURSIVE matches(_)
      matches(m) ==
        LET starts == {i \in 1..Len(m) :
                         /\ EndsWith(m[i], Kw.join) /\ tok(m, i + 1) = Space
                         /\ IsWord(tok(m, i + 2)) /\ tok(m, i + 3) = Space
                         /\ tok(m, i + 4) = Kw.on /\ tok(m, i + 5) = Space
                         /\ i + 6 <= Len(m)}
        IN IF starts = {} THEN <<>>
           ELSE LET i == Least(starts)
                    e == lazyEnd(m, i + 6, [k \in 1..Len(m) |-> End(m, k)])
                    kw == CHOOSE w \in {Kw.where, Kw.order, Kw.group} :
                            e <= Len(m) => StartsWith(m[e + 1], w)
                    left == IF e > Len(m) THEN <<>>
                            ELSE SubSeq(m[e + 1], Len(kw) + 1, Len(m[e + 1]))
                IN << <<Kw.join>> \o SubSeq(m, i + 1, e - 1)
                        \o (IF e > Len(m) THEN <<>> ELSE <<Space, kw>>) >>
                     \o matches((IF left = <<>> THEN <<>> ELSE <<left>>)
                                  \o SubSeq(m, e + 2, Len(m)))
      found == matches(n)
  IN IF found = <<>> THEN None ELSE Some(found)

RECURSIVE addAll(_, _)
\* items.forEach(col => set.add(col)); with an empty set, new Set(items): a Set
\* keeps its members in the order of their first insertion
addAll(set, items) ==
  IF items = <<>> THEN set
  ELSE addAll(IF \E i \in 1..Len(set) : set[i] = Head(items) THEN set
              ELSE Append(set, Head(items)),
              Tail(items))

\* IndexTunerAgent.extractColumnsFromWhere: the matches of the four patterns,
\* pattern after pattern, each pattern from left to right
extractColumnsFromWhere(whereClause) ==
  LET IsOp(t) == t \in {<<"=">>, <<"<">>, <<">">>, <<"!">>}
      RECURSIVE operators(_)
      \* /(\w+)\s*[=<>!]/g
      operators(c) ==
        LET hits == {i \in 1..Len(c) :
                       /\ IsWord(c[i])
                       /\ \/ IsOp(tok(c, i + 1))
                          \/ tok(c, i + 1) = Space /\ IsOp(tok(c, i + 2))}
        IN IF hits = {} THEN <<>>
           ELSE LET i == Least(hits)
                    e == IF IsOp(tok(c, i + 1)) THEN i + 1 ELSE i + 2
                IN <<c[i]>> \o operators(SubSeq(c, e + 1, Len(c)))
      RECURSIVE membership(_)
      \* /(\w+)\s+in\s*\(/gi
      membership(c) ==
        LET hits == {i \in 1..Len(c) :
                       /\ IsWord(c[i]) /\ tok(c, i + 1) = Space /\ tok(c, i + 2) = Kw.isin
                       /\ \/ tok(c, i + 3) = <<"(">>
                          \/ tok(c, i + 3) = Space /\ tok(c, i + 4) = <<"(">>}
        IN IF hits = {} THEN <<>>
           ELSE LET i == Least(hits)
                    e == IF tok(c, i + 3) = <<"(">> THEN i + 3 ELSE i + 4
                IN <<c[i]>> \o membership(SubSeq(c, e + 1, Len(c)))
      RECURSIVE keyword(_, _)
      \* /(\w+)\s+like/gi and /(\w+)\s+between/gi: the match ends inside the
      \* token that starts with the keyword
      keyword(c, kw) ==
        LET hits == {i \in 1..Len(c) :
                       IsWord(c[i]) /\ tok(c, i + 1) = Space /\ StartsWith(tok(c, i + 2), kw)}
        IN IF hits = {} THEN <<>>
           ELSE LET i == Least(hits)
                    left == SubSeq(c[i + 2], Len(kw) + 1, Len(c[i + 2]))
                IN <<c[i]>> \o keyword((IF left = <<>> THEN <<>> ELSE <<left>>)
                                         \o SubSeq(c, i + 3, Len(c)), kw)
      columns == operators(whereClause) \o membership(whereClause)
                   \o keyword(whereClause, Kw.like) \o keyword(whereClause, Kw.between)
  IN addAll(<<>>, columns)

\* IndexTunerAgent.extractColumnsFromOrderBy: of each comma-separated entry the
\* text before its first whitespace, unless that is empty, asc or desc
extractColumnsFromOrderBy(orderClause) ==
  LET RECURSIVE split(_, _)
      split(c, entry) ==
        IF c = <<>> THEN <<entry>>
        ELSE IF Head(c) = <<",">> THEN <<entry>> \o split(Tail(c), <<>>)
        ELSE split(Tail(c), Append(entry, Head(c)))
      RECURSIVE text(_)
      text(ts) == IF ts = <<>> THEN <<>> ELSE Head(ts) \o text(Tail(ts))
      first(entry) ==
        LET trimmed == IF entry # <<>> /\ entry[1] = Space THEN Tail(entry) ELSE entry
            spaces == {i \in 1..Len(trimmed) : trimmed[i] = Space}
        IN text(SubSeq(trimmed, 1,
                       IF spaces = {} THEN Len(trimmed) ELSE Least(spaces) - 1))
      entries == split(orderClause, <<>>)
      cols == [i \in 1..Len(entries) |-> first(entries[i])]
  IN SelectSeq(cols, LAMBDA col : col # <<>> /\ col \notin {Kw.asc, Kw.desc})

\* IndexTunerAgent.extractColumnsFromJoin: both operands of every equality
\* after the first `on`
extractColumnsFromJoin(joinClause) ==
  LET ons == {i \in 1..Len(joinClause) :
                /\ EndsWith(joinClause[i], Kw.on) /\ tok(joinClause, i + 1) = Space
                /\ i + 2 <= Len(joinClause)}
      RECURSIVE equalities(_)
      \* /(\w+)\s*=\s*(\w+)/g
      equalities(c) ==
        LET eq(i) == IF tok(c, i + 1) = Space THEN i + 2 ELSE i + 1
            right(i) == IF tok(c, eq(i) + 1) = Space THEN eq(i) + 2 ELSE eq(i) + 1
            hits == {i \in 1..Len(c) :
                       IsWord(c[i]) /\ tok(c, eq(i)) = <<"=">> /\ IsWord(tok(c, right(i)))}
        IN IF hits = {} THEN <<>>
           ELSE LET i == Least(hits) IN
                <<c[i], c[right(i)]>> \o equalities(SubSeq(c, right(i) + 1, Len(c)))
  IN IF ons = {} THEN <<>>
     ELSE equalities(SubSeq(joinClause, Least(ons) + 2, Len(joinClause)))

\* IndexTunerAgent.assessComplexity: score = 2 where + 1.5 order + 3 join,
\* compared doubled
assessComplexity(patterns) ==
  LET score2 == Len(patterns.whereColumns) * 4 + Len(patterns.orderByColumns) * 3
                  + Len(patterns.joinColumns) * 6
  IN IF score2 < 10 THEN "low" ELSE IF score2 < 30 THEN "medium" ELSE "high"

\* a guard that lets null through
MatchedAlways(m) == TRUE

\* if (whereMatch), if (orderMatch), if (joinMatches)
Matched(m) == m # None

\* whereMatch[1], orderMatch[1], joinMatches.forEach: reading a property of null
\* throws a TypeError
deref(m) == IF m = None THEN Throw("Cannot read properties of null") ELSE Ok(m[1])

\* the callback of queries.forEach in analyzeQueries: the columns of one query
\* are added to the three sets
analyzeQuery(patterns, query) ==
  LET RECURSIVE joined(_)
      joined(clauses) ==
        IF clauses = <<>> THEN <<>>
        ELSE extractColumnsFromJoin(Head(clauses)) \o joined(Tail(clauses))
      \* the three guarded blocks: the columns each one adds
      fromWhere(m) ==
        IF ~Matched(m) THEN Ok(<<>>)
        ELSE IF ~deref(m).ok THEN deref(m)
        ELSE Ok(extractColumnsFromWhere(Val(deref(m))))
      fromOrderBy(m) ==
        IF ~Matched(m) THEN Ok(<<>>)
        ELSE IF ~deref(m).ok THEN deref(m)
        ELSE Ok(extractColumnsFromOrderBy(Val(deref(m))))
      fromJoin(m) ==
        IF ~Matched(m) THEN Ok(<<>>)
        ELSE IF ~deref(m).ok THEN deref(m)
        ELSE Ok(joined(Val(deref(m))))
      add(w, o, j) ==
        IF ~w.ok THEN Throw(w.msg)
        ELSE IF ~o.ok THEN Throw(o.msg)
        ELSE IF ~j.ok THEN Throw(j.msg)
        ELSE Ok([whereColumns |-> addAll(patterns.whereColumns, Val(w)),
                 orderByColumns |-> addAll(patterns.orderByColumns, Val(o)),
                 joinColumns |-> addAll(patterns.joinColumns, Val(j))])
      match(normalized) ==
        add(fromWhere(whereMatch(normalized)), fromOrderBy(orderMatch(normalized)),
            fromJoin(joinMatches(normalized)))
  IN match(normalize(query))

\* a patterns object that is the one an earlier call left behind
keptPatterns(left) ==
  IF left = None
  THEN [whereColumns |-> <<>>, orderByColumns |-> <<>>, joinColumns |-> <<>>]
  ELSE left[1]

\* const patterns = {whereColumns: new Set(), ...}: every call starts from new,
\* empty sets, whatever an earlier call left behind
newPatterns(left) == [whereColumns |-> <<>>, orderByColumns |-> <<>>, joinColumns |-> <<>>]

\* IndexTunerAgent.analyzeQueries from its patterns object on
analyzeQueriesFrom(patterns, queries, tableName) ==
  LET RECURSIVE forEach(_, _)
      forEach(qs, ps) ==
        LET next(r) == IF ~r.ok THEN r ELSE forEach(Tail(qs), Val(r)) IN
        IF qs = <<>> THEN Ok(ps) ELSE next(analyzeQuery(ps, Head(qs)))
      return(r) ==
        IF ~r.ok THEN Throw(r.msg)
        ELSE Ok([tableName |-> tableName, patterns |-> Val(r), queryCount |-> Len(queries),
                 complexity |-> assessComplexity(Val(r))])
  IN return(forEach(queries, patterns))

\* IndexTunerAgent.analyzeQueries
analyzeQueries(queries, tableName) ==
  analyzeQueriesFrom(newPatterns(None), queries, tableName)

\* ------------------------------------------------------------------- state
VARIABLES
  jobs,        \* AgentOrchestrator.jobs: job id -> job record (a Map, so a growing domain)
  frame,       \* per job: the activation record of executeOptimization
  promise,     \* per job: the promise of executeOptimization(job) and its handlers
  submitted,   \* per job: what runABOptimization returned to its caller
  db,          \* connection string -> the index names that exist in that database
  createdVia,  \* history: <<job, slot, index name>> of every CREATE INDEX that succeeded
  trace,       \* history: per job, its status writes and fork calls in program order
  hjobs,       \* the HTTP server's global.jobs
  htimers,     \* the HTTP server's pending completion timers: [id, due]
  hissued,     \* the number of job ids the HTTP server has generated
  hreply,      \* the HTTP server's reply to the latest request
  hswept,      \* the time of the latest sweep of global.jobs
  now,         \* the clock (Date.now()), in milliseconds since the server started
  call         \* a single call of one method examined on its own: arguments, result

vars == <<jobs, frame, promise, submitted, db, createdVia, trace,
          hjobs, htimers, hissued, hreply, hswept, now, call>>
\* what the HTTP server's handlers leave alone, and what the orchestrator's do
orchVars == <<jobs, frame, promise, submitted, db, createdVia, trace, call>>
httpVars == <<hjobs, htimers, hissued, hreply, hswept, now, call>>

\* TigerService.baseConnectionString (process.env.TIGER_DATABASE_URL)
baseConnectionString == "base"
ConnectionStrings == {baseConnectionString}

\* the limits of POST /api/optimize
MaxQueries == 50
MaxQueryLength == 5000

\* A query text is its length and its words (the maximal runs of [A-Za-z0-9_]).
SelectQuery == [isString |-> TRUE, length |-> 30,
                words |-> << <<"s","e","l","e","c","t">>, <<"f","r","o","m">>, <<"t">> >>]
WhereQuery == [isString |-> TRUE, length |-> 40,
               words |-> << <<"s","e","l","e","c","t">>, <<"f","r","o","m">>, <<"t">>,
                            <<"w","h","e","r","e">>, <<"a">>, <<"1">>, <<"a","n","d">>,
                            <<"b">>, <<"2">> >>]
DigitQuery == [isString |-> TRUE, length |-> 27,
               words |-> << <<"s","e","l","e","c","t">>, <<"f","r","o","m">>, <<"t">>,
                            <<"w","h","e","r","e">>, <<"1">>, <<"1">> >>]
DropQuery == [isString |-> TRUE, length |-> 12,
              words |-> << <<"D","r","o","p">>, <<"t","a","b","l","e">>, <<"t">> >>]
LongQuery == [isString |-> TRUE, length |-> MaxQueryLength + 1,
              words |-> << <<"s","e","l","e","c","t">> >>]

\* What a caller may submit: the query texts, the table name, and the pattern
\* set analyzeQueries extracts from those texts (columns in order of discovery).
\* runABOptimization does not check its argument: `queries` is an array, or any
\* object analyzeQueries accepts (it needs forEach and length only), such as the
\* array-like {length: 1, 0: 'select * from t', forEach: Array.prototype.forEach},
\* which `for (const query of queries)` cannot iterate.
Workloads ==
  { [queries |-> <<WhereQuery>>, iterable |-> TRUE,
     tableName |-> <<"t">>,
     patterns |-> [whereColumns |-> << <<"a">>, <<"b">> >>, orderByColumns |-> <<>>]],
    [queries |-> <<DropQuery>>, iterable |-> TRUE,
     tableName |-> <<"t">>,
     patterns |-> [whereColumns |-> <<>>, orderByColumns |-> <<>>]],
    [queries |-> <<SelectQuery>>, iterable |-> FALSE,
     tableName |-> <<"t">>,
     patterns |-> [whereColumns |-> <<>>, orderByColumns |-> <<>>]],
    [queries |-> <<DigitQuery>>, iterable |-> TRUE,
     tableName |-> <<"t">>,
     patterns |-> [whereColumns |-> << <<"1">> >>, orderByColumns |-> <<>>]],
    [queries |-> <<SelectQuery>>, iterable |-> TRUE,
     tableName |-> <<"1", "t">>,
     patterns |-> [whereColumns |-> <<>>, orderByColumns |-> <<>>]] }

\* the mean execution times a measured query may show
Times == {10}

NoFrame ==
  [pc |-> "idle", queries |-> <<>>, iterable |-> TRUE, generated |-> None,
   strategies |-> None, forkA |-> None, forkB |-> None, applyResults |-> <<>>,
   resultsA |-> <<>>, resultsB |-> <<>>, pending |-> NULL, error |-> NULL]

\* no call is under examination
NoCall == [method |-> "none"]

\* the orchestrator and the HTTP server after construction
Constructed ==
  /\ jobs = <<>>
  /\ frame = [j \in JobIds |-> NoFrame]
  /\ promise = [j \in JobIds |->
                  [state |-> "none", catch |-> FALSE, unhandled |-> FALSE, reason |-> NULL]]
  /\ submitted = [j \in JobIds |-> None]
  /\ db = [c \in ConnectionStrings |-> {}]
  /\ createdVia = {}
  /\ trace = [j \in JobIds |-> <<>>]
  /\ hjobs = <<>>
  /\ htimers = {}
  /\ hissued = 0
  /\ hreply = [code |-> 0, body |-> "none"]
  /\ hswept = 0
  /\ now = 0

Init == Constructed /\ call = NoCall

\* history events
StatusEv(s) == [kind |-> "status", arg |-> s]
CreatedEv(slot) == [kind |-> "created", arg |-> slot]
DeleteEv(slot) == [kind |-> "deleteFork", arg |-> slot]
CleanupErrorEv(slot) == [kind |-> "cleanupError", arg |-> slot]

\* ------------------------------------------------------------ TigerService
\* TigerService.createFork: the fork it returns addresses the base database.
createFork(forkName) ==
  [forkName |-> forkName, connectionString |-> baseConnectionString, isSimulated |-> TRUE]

\* the ways a call to the fork service can end: createFork returns its fork or
\* throws "Failed to create fork"; deleteFork reports deleted: true, reports
\* deleted: false, or (another service object) throws.
CreateForkOutcomes == {"ok", "throw"}
DeleteForkOutcomes == {"deleted", "not_deleted", "throw"}

ForkName(j, slot) == <<j, IF slot = "A" THEN "-strategy-a" ELSE "-strategy-b">>

\* ------------------------------------------------------- AgentOrchestrator
\* the guard `fork && fork.forkName` of both cleanup blocks
ShouldDelete(fork) == fork # None

\* a cleanup without the try/catch around deleteFork: its exception escapes
CleanupAbortsOnThrow(outcome) == outcome # "throw"

\* try { await deleteFork(...) } catch (cleanupError) {...}: whatever deleteFork
\* did, the statement completes and the code after it runs
CleanupCompletes(outcome) == outcome \in DeleteForkOutcomes

\* a cleanup handler that reports the cleanup error through the job record
OnCleanupErrorRecorded(job, outcome) ==
  [job EXCEPT !.status = "failed", !.error = "deleteFork failed"]

\* catch (cleanupError) { console.error(...) }: the job record is left alone
OnCleanupError(job, outcome) == job

\* a catch block that records the error and forgets the status
FailedJobNoStatus(job, msg) == [job EXCEPT !.error = msg, !.endTime = @ + 1]

\* job.status = 'failed'; job.error = error.message; job.endTime = new Date()
FailedJob(job, msg) ==
  [job EXCEPT !.status = "failed", !.error = msg, !.endTime = @ + 1]

\* a completion that sets the status and leaves the results out
CompletedJobStatusOnly(job, results) == [job EXCEPT !.status = "completed"]

\* job.results = {...}; job.status = 'completed'
CompletedJob(job, results) ==
  [job EXCEPT !.results = Some(results), !.status = "completed"]

\* executeOptimization's promise rejects: with the .catch of runABOptimization
\* attached the rejection is handled, otherwise it is an unhandled rejection.
Rejected(p, reason) ==
  [p EXCEPT !.state = "rejected", !.reason = reason, !.unhandled = ~p.catch]

\* the outer catch block, entered with the job record `job` and the exception
\* `msg` after the events `logged`, up to its first await (cleanup of fork A,
\* else of fork B) or, with no fork to clean up, its `throw error`
Catch(j, job, fr, msg, logged) ==
  LET failed == FailedJob(job, msg)
      f == [fr EXCEPT !.error = msg, !.pending = NULL]
      evs == logged \o <<StatusEv("failed")>>
  IN /\ jobs' = [jobs EXCEPT ![j] = failed]
     /\ IF ShouldDelete(fr.forkA)
        THEN /\ frame' = [frame EXCEPT ![j] = [f EXCEPT !.pc = "catch_delA"]]
             /\ trace' = [trace EXCEPT ![j] = @ \o evs \o <<DeleteEv("A")>>]
             /\ UNCHANGED promise
        ELSE IF ShouldDelete(fr.forkB)
        THEN /\ frame' = [frame EXCEPT ![j] = [f EXCEPT !.pc = "catch_delB"]]
             /\ trace' = [trace EXCEPT ![j] = @ \o evs \o <<DeleteEv("B")>>]
             /\ UNCHANGED promise
        ELSE /\ frame' = [frame EXCEPT ![j] = [f EXCEPT !.pc = "rejected"]]
             /\ trace' = [trace EXCEPT ![j] = @ \o evs]
             /\ promise' = [promise EXCEPT ![j] = Rejected(@, msg)]

\* a submission that starts executeOptimization(job) and attaches no handler
AttachNoCatch(p) == [p EXCEPT !.state = "pending"]

\* the .catch handler runABOptimization attaches to executeOptimization(job)
AttachCatch(p) == [p EXCEPT !.state = "pending", !.catch = TRUE]

\* a submission that returns the job id and does not store the job
SubmitNotStored(j, w) ==
  /\ j = Cardinality(DOMAIN jobs) + 1
  /\ submitted[j] = None
  /\ submitted' = [submitted EXCEPT ![j] = Some([jobId |-> j, status |-> "started"])]
  /\ UNCHANGED <<jobs, frame, promise, db, createdVia, trace, httpVars>>

\* runABOptimization, with the part of executeOptimization that runs before its
\* first await: the job is stored with status 'running', executeOptimization sets
\* 'generating_strategies' and calls generateIndexStrategies.
Submit(j, w) ==
  /\ j \notin DOMAIN jobs
  /\ j = Cardinality(DOMAIN jobs) + 1
  /\ jobs' = (j :> [id |-> j, status |-> "generating_strategies", startTime |-> now,
                    queries |-> w.queries, tableName |-> w.tableName, results |-> None,
                    error |-> NULL, endTime |-> 0]) @@ jobs
  /\ frame' = [frame EXCEPT ![j] =
                 [NoFrame EXCEPT !.pc = "await_generate", !.queries = w.queries,
                                 !.iterable = w.iterable,
                                 !.generated = Some(generateIndexStrategies(
                                     [tableName |-> w.tableName, patterns |-> w.patterns]))]]
  /\ promise' = [promise EXCEPT ![j] = AttachCatch(@)]
  /\ submitted' = [submitted EXCEPT ![j] = Some([jobId |-> j, status |-> "started"])]
  /\ trace' = [trace EXCEPT ![j] = <<StatusEv("running"), StatusEv("generating_strategies")>>]
  /\ UNCHANGED <<db, createdVia, httpVars>>

\* after `await generateIndexStrategies`: its exception enters the catch block,
\* otherwise status 'creating_forks' and the call of createFork for strategy A
AfterGenerate(j) ==
  /\ j \in DOMAIN jobs
  /\ frame[j].pc = "await_generate"
  /\ LET g == frame[j].generated[1] IN
       IF ~g.ok
       THEN Catch(j, jobs[j], [frame[j] EXCEPT !.generated = None], g.msg, <<>>)
       ELSE /\ jobs' = [jobs EXCEPT ![j].status = "creating_forks"]
            /\ frame' = [frame EXCEPT ![j].pc = "await_createA", ![j].generated = None,
                                      ![j].strategies = Some(Val(g))]
            /\ trace' = [trace EXCEPT ![j] = Append(@, StatusEv("creating_forks"))]
            /\ UNCHANGED promise
  /\ UNCHANGED <<submitted, db, createdVia, httpVars>>

\* after `await createFork(strategy-a)`: forkA is assigned and createFork is
\* called for strategy B, or the exception enters the catch block
AfterCreateForkA(j, outcome) ==
  /\ j \in DOMAIN jobs
  /\ frame[j].pc = "await_createA"
  /\ IF outcome = "throw"
     THEN Catch(j, jobs[j], frame[j], "Failed to create fork strategy-a", <<>>)
     ELSE /\ frame' = [frame EXCEPT ![j].pc = "await_createB",
                                    ![j].forkA = Some(createFork(ForkName(j, "A")))]
          /\ trace' = [trace EXCEPT ![j] = Append(@, CreatedEv("A"))]
          /\ UNCHANGED <<jobs, promise>>
  /\ UNCHANGED <<submitted, db, createdVia, httpVars>>

\* after `await createFork(strategy-b)`: forkB is assigned, status becomes
\* 'applying_strategies' and applyIndexStrategy starts on fork A
AfterCreateForkB(j, outcome) ==
  /\ j \in DOMAIN jobs
  /\ frame[j].pc = "await_createB"
  /\ IF outcome = "throw"
     THEN Catch(j, jobs[j], frame[j], "Failed to create fork strategy-b", <<>>)
     ELSE /\ jobs' = [jobs EXCEPT ![j].status = "applying_strategies"]
          /\ frame' = [frame EXCEPT ![j].pc = "applyA", ![j].applyResults = <<>>,
                                    ![j].forkB = Some(createFork(ForkName(j, "B")))]
          /\ trace' = [trace EXCEPT ![j] =
                         @ \o <<CreatedEv("B"), StatusEv("applying_strategies")>>]
          /\ UNCHANGED promise
  /\ UNCHANGED <<submitted, db, createdVia, httpVars>>

\* ---------------------------------------------------------- ValidatorAgent
\* the strategy and the fork of the applyIndexStrategy call a job is inside
ApplyStrategy(fr) ==
  IF fr.pc = "applyA" THEN fr.strategies[1].strategyA ELSE fr.strategies[1].strategyB
ApplyFork(fr) == IF fr.pc = "applyA" THEN fr.forkA[1] ELSE fr.forkB[1]

\* how executeQuery(connectionString, CREATE INDEX name ...) can end: an index
\* name that exists in that database makes the statement fail; otherwise the
\* database creates the index, or the statement or the connection fails
ExecuteCreateOutcomes(conn, name) ==
  IF name \in db[conn] THEN {"throw"} ELSE {"ok", "throw"}

\* a catch block that gives up on the indexes after the one that failed
pushFailedAndStop(results, indexes, i) ==
  [k \in 1..Len(indexes) |->
     IF k < i THEN results[k]
     ELSE [index |-> indexes[k].name, status |-> IF k = i THEN "failed" ELSE "skipped"]]

\* the catch block of applyIndexStrategy: the index is recorded as failed and
\* the loop goes on with the next one
pushFailed(results, indexes, i) ==
  Append(results, [index |-> indexes[i].name, status |-> "failed"])

\* applyIndexStrategy, one turn of its loop: executeQuery of the next index
\* returns or throws, and either way one entry is pushed and the loop goes on
ApplyIndex(j, outcome) ==
  /\ j \in DOMAIN jobs
  /\ frame[j].pc \in {"applyA", "applyB"}
  /\ LET fr == frame[j]
         indexes == ApplyStrategy(fr).indexes
         i == Len(fr.applyResults) + 1
         conn == ApplyFork(fr).connectionString
     IN /\ i <= Len(indexes)
        /\ outcome \in ExecuteCreateOutcomes(conn, indexes[i].name)
        /\ IF outcome = "ok"
           THEN /\ db' = [db EXCEPT ![conn] = @ \cup {indexes[i].name}]
                /\ createdVia' = createdVia \cup
                     {<<j, IF fr.pc = "applyA" THEN "A" ELSE "B", indexes[i].name>>}
                /\ frame' = [frame EXCEPT ![j].applyResults =
                               Append(@, [index |-> indexes[i].name, status |-> "created"])]
           ELSE /\ frame' = [frame EXCEPT ![j].applyResults = pushFailed(@, indexes, i)]
                /\ UNCHANGED <<db, createdVia>>
  /\ UNCHANGED <<jobs, promise, submitted, trace, httpVars>>

\* applyIndexStrategy returns (its result array is dropped by the caller): after
\* fork A the orchestrator applies strategy B to fork B, after fork B it sets
\* status 'running_tests' and starts the tests on fork A
AfterApply(j) ==
  /\ j \in DOMAIN jobs
  /\ frame[j].pc \in {"applyA", "applyB"}
  /\ Len(frame[j].applyResults) = Len(ApplyStrategy(frame[j]).indexes)
  /\ IF frame[j].pc = "applyA"
     THEN /\ frame' = [frame EXCEPT ![j].pc = "applyB", ![j].applyResults = <<>>]
          /\ UNCHANGED <<jobs, trace>>
     ELSE /\ frame' = [frame EXCEPT ![j].pc = "testA", ![j].applyResults = <<>>]
          /\ jobs' = [jobs EXCEPT ![j].status = "running_tests"]
          /\ trace' = [trace EXCEPT ![j] = Append(@, StatusEv("running_tests"))]
  /\ UNCHANGED <<promise, submitted, db, createdVia, httpVars>>

\* runPerformanceTests, per query: three explainAnalyze runs that all return give
\* a sample with their mean execution time; a run that throws gives the sample
\* {error, executionTime: null}
MeasuredSample(q, t) == [query |-> q, executionTime |-> Some(t), error |-> NULL]
FailedSample(q) == [query |-> q, executionTime |-> None, error |-> "explain failed"]
SampleOutcomes(q) == {MeasuredSample(q, t) : t \in Times} \cup {FailedSample(q)}

\* the arrays runPerformanceTests can return: one sample per query, in order
PerformanceResults(queries) ==
  {rs \in [1..Len(queries) -> UNION {SampleOutcomes(queries[i]) : i \in 1..Len(queries)}] :
     \A i \in 1..Len(queries) : rs[i] \in SampleOutcomes(queries[i])}

\* ------------------------------------------ comparison and recommendation
\* r.executionTime as `sum + r.executionTime` reads it: null counts as 0
TimeOf(r) == IF r.executionTime = None THEN 0 ELSE r.executionTime[1]

RECURSIVE SumTimes(_)
SumTimes(rs) == IF rs = <<>> THEN 0 ELSE TimeOf(rs[1]) + SumTimes(Tail(rs))

\* A number is the fraction num/den with den >= 0; den = 0 is NaN (num = 0) or
\* an infinity with the sign of num, as IEEE division gives.
Frac(n, d) == [num |-> n, den |-> d]
\* a difference reported without Math.abs
AbsMissing(x) == x
Abs(x) == IF x < 0 THEN -x ELSE x
IsNaN(x) == x.den = 0 /\ x.num = 0
\* x > c and x < c for an integer c (false for NaN)
Gt(x, c) == IF x.den = 0 THEN x.num > 0 ELSE x.num > c * x.den
Lt(x, c) == IF x.den = 0 THEN x.num < 0 ELSE x.num < c * x.den
AbsF(x) == Frac(Abs(x.num), x.den)

\* AgentOrchestrator.compareResults
compareResults(strategies, resultsA, resultsB) ==
  LET avgTimeA == Frac(SumTimes(resultsA), Len(resultsA))
      avgTimeB == Frac(SumTimes(resultsB), Len(resultsB))
      \* ((avgTimeA - avgTimeB) / avgTimeA) * 100
      improvement ==
        IF avgTimeA.den = 0 \/ avgTimeB.den = 0 THEN Frac(0, 0)
        ELSE Frac((avgTimeA.num * avgTimeB.den - avgTimeB.num * avgTimeA.den) * 100,
                  avgTimeA.num * avgTimeB.den)
  IN [strategyA |-> [name |-> strategies.strategyA.name, avgExecutionTime |-> avgTimeA,
                     queries |-> Len(resultsA)],
      strategyB |-> [name |-> strategies.strategyB.name, avgExecutionTime |-> avgTimeB,
                     queries |-> Len(resultsB)],
      improvement |-> [percentage |-> improvement,
                       faster |-> IF Gt(improvement, 0) THEN "strategyB" ELSE "strategyA",
                       timeSaved |->
                         IF avgTimeA.den = 0 \/ avgTimeB.den = 0 THEN Frac(0, 0)
                         ELSE Frac(Abs(avgTimeA.num * avgTimeB.den
                                       - avgTimeB.num * avgTimeA.den),
                                   avgTimeA.den * avgTimeB.den)]]

\* a recommendation whose threshold test is `<= 5`
generateRecommendationAtMost(comparison) ==
  LET improvement == comparison.improvement IN
  IF ~Gt(AbsF(improvement.percentage), 5) /\ ~IsNaN(improvement.percentage)
  THEN [action |-> "no_change", strategy |-> NULL, confidence |-> "low"]
  ELSE [action |-> "apply_strategy", strategy |-> improvement.faster,
        confidence |-> IF Gt(AbsF(improvement.percentage), 20) THEN "high" ELSE "medium"]

\* AgentOrchestrator.generateRecommendation
generateRecommendation(comparison) ==
  LET improvement == comparison.improvement IN
  IF Lt(AbsF(improvement.percentage), 5) /\ ~IsNaN(improvement.percentage)
  THEN [action |-> "no_change", strategy |-> NULL, confidence |-> "low"]
  ELSE [action |-> "apply_strategy", strategy |-> improvement.faster,
        confidence |-> IF Gt(AbsF(improvement.percentage), 20) THEN "high" ELSE "medium"]

\* ------------------------------------- AgentOrchestrator, tests and cleanup
\* `await runPerformanceTests(forkA...)` throws: `for (const query of queries)`
\* (validator.js, outside the loop's try) rejects a `queries` that is not
\* iterable. The exception leaves the inner try through the finally block, which
\* runs up to its first await with the exception pending.
TestsAThrow(j) ==
  /\ j \in DOMAIN jobs
  /\ frame[j].pc = "testA"
  /\ ~frame[j].iterable
  /\ LET fr == [frame[j] EXCEPT !.pending = "queries is not iterable"] IN
       IF ShouldDelete(fr.forkA)
       THEN /\ frame' = [frame EXCEPT ![j] = [fr EXCEPT !.pc = "finally_delA"]]
            /\ trace' = [trace EXCEPT ![j] = Append(@, DeleteEv("A"))]
            /\ UNCHANGED <<jobs, promise>>
       ELSE IF ShouldDelete(fr.forkB)
       THEN /\ frame' = [frame EXCEPT ![j] = [fr EXCEPT !.pc = "finally_delB"]]
            /\ trace' = [trace EXCEPT ![j] = Append(@, DeleteEv("B"))]
            /\ UNCHANGED <<jobs, promise>>
       ELSE Catch(j, jobs[j], fr, fr.pending, <<>>)
  /\ UNCHANGED <<submitted, db, createdVia, httpVars>>

\* after `await runPerformanceTests(forkA...)`: the tests start on fork B
AfterTestsA(j, resultsA) ==
  /\ j \in DOMAIN jobs
  /\ frame[j].pc = "testA"
  /\ frame[j].iterable
  /\ resultsA \in PerformanceResults(frame[j].queries)
  /\ frame' = [frame EXCEPT ![j].pc = "testB", ![j].resultsA = resultsA]
  /\ UNCHANGED <<jobs, promise, submitted, db, createdVia, trace, httpVars>>

\* after `await runPerformanceTests(forkB...)`: status 'analyzing_results', the
\* comparison, job.results, status 'completed', and the finally block up to its
\* first await (deleteFork of fork A, else of fork B, else the end of the job)
AfterTestsB(j, resultsB) ==
  /\ j \in DOMAIN jobs
  /\ frame[j].pc = "testB"
  /\ resultsB \in PerformanceResults(frame[j].queries)
  /\ LET fr == frame[j]
         strategies == fr.strategies[1]
         comparison == compareResults(strategies, fr.resultsA, resultsB)
         results == [strategies |-> strategies,
                     forks |-> [forkA |-> fr.forkA[1].forkName,
                                forkB |-> fr.forkB[1].forkName],
                     performance |-> [strategyA |-> fr.resultsA, strategyB |-> resultsB],
                     comparison |-> comparison,
                     recommendation |-> generateRecommendation(comparison)]
         completed == CompletedJob(jobs[j], results)
         statusEvs == <<StatusEv("analyzing_results")>> \o
                      (IF completed.status = "completed"
                       THEN <<StatusEv("completed")>> ELSE <<>>)
     IN IF ShouldDelete(fr.forkA)
        THEN /\ jobs' = [jobs EXCEPT ![j] = completed]
             /\ frame' = [frame EXCEPT ![j].pc = "finally_delA", ![j].resultsB = resultsB]
             /\ trace' = [trace EXCEPT ![j] = @ \o statusEvs \o <<DeleteEv("A")>>]
             /\ UNCHANGED promise
        ELSE IF ShouldDelete(fr.forkB)
        THEN /\ jobs' = [jobs EXCEPT ![j] = completed]
             /\ frame' = [frame EXCEPT ![j].pc = "finally_delB", ![j].resultsB = resultsB]
             /\ trace' = [trace EXCEPT ![j] = @ \o statusEvs \o <<DeleteEv("B")>>]
             /\ UNCHANGED promise
        ELSE /\ jobs' = [jobs EXCEPT ![j] = [completed EXCEPT !.endTime = @ + 1]]
             /\ frame' = [frame EXCEPT ![j].pc = "done", ![j].resultsB = resultsB]
             /\ trace' = [trace EXCEPT ![j] = @ \o statusEvs]
             /\ promise' = [promise EXCEPT ![j].state = "fulfilled"]
  /\ UNCHANGED <<submitted, db, createdVia, httpVars>>

\* the finally block after an awaited deleteFork: whatever the call did (its
\* exception is caught and logged), fork B is deleted after fork A; after the
\* last one a pending exception goes on to the outer catch block, and without
\* one job.endTime is set and executeOptimization returns
AfterFinallyDelete(j, outcome) ==
  /\ j \in DOMAIN jobs
  /\ frame[j].pc \in {"finally_delA", "finally_delB"}
  /\ LET fr == frame[j]
         slot == IF fr.pc = "finally_delA" THEN "A" ELSE "B"
         job == IF outcome = "throw" THEN OnCleanupError(jobs[j], outcome) ELSE jobs[j]
         logged == IF outcome = "throw" THEN <<CleanupErrorEv(slot)>> ELSE <<>>
     IN IF ~CleanupCompletes(outcome)
        THEN Catch(j, jobs[j], fr, "deleteFork failed", <<>>)
        ELSE IF fr.pc = "finally_delA" /\ ShouldDelete(fr.forkB)
        THEN /\ jobs' = [jobs EXCEPT ![j] = job]
             /\ frame' = [frame EXCEPT ![j].pc = "finally_delB"]
             /\ trace' = [trace EXCEPT ![j] = @ \o logged \o <<DeleteEv("B")>>]
             /\ UNCHANGED promise
        ELSE IF fr.pending # NULL
        THEN Catch(j, job, fr, fr.pending, logged)
        ELSE /\ jobs' = [jobs EXCEPT ![j] = [job EXCEPT !.endTime = @ + 1]]
             /\ frame' = [frame EXCEPT ![j].pc = "done"]
             /\ trace' = [trace EXCEPT ![j] = @ \o logged]
             /\ promise' = [promise EXCEPT ![j].state = "fulfilled"]
  /\ UNCHANGED <<submitted, db, createdVia, httpVars>>

\* the catch block after an awaited deleteFork: fork B is deleted after fork A,
\* and after the last one the caught error is thrown again
AfterCatchDelete(j, outcome) ==
  /\ j \in DOMAIN jobs
  /\ frame[j].pc \in {"catch_delA", "catch_delB"}
  /\ LET fr == frame[j]
         slot == IF fr.pc = "catch_delA" THEN "A" ELSE "B"
         job == IF outcome = "throw" THEN OnCleanupError(jobs[j], outcome) ELSE jobs[j]
         logged == IF outcome = "throw" THEN <<CleanupErrorEv(slot)>> ELSE <<>>
     IN IF ~CleanupCompletes(outcome)
        THEN /\ frame' = [frame EXCEPT ![j].pc = "rejected"]
             /\ promise' = [promise EXCEPT ![j] = Rejected(@, "deleteFork failed")]
             /\ UNCHANGED <<jobs, trace>>
        ELSE IF fr.pc = "catch_delA" /\ ShouldDelete(fr.forkB)
        THEN /\ jobs' = [jobs EXCEPT ![j] = job]
             /\ frame' = [frame EXCEPT ![j].pc = "catch_delB"]
             /\ trace' = [trace EXCEPT ![j] = @ \o logged \o <<DeleteEv("B")>>]
             /\ UNCHANGED promise
        ELSE /\ jobs' = [jobs EXCEPT ![j] = job]
             /\ frame' = [frame EXCEPT ![j].pc = "rejected"]
             /\ trace' = [trace EXCEPT ![j] = @ \o logged]
             /\ promise' = [promise EXCEPT ![j] = Rejected(@, fr.error)]
  /\ UNCHANGED <<submitted, db, createdVia, httpVars>>

\* the .catch handler of runABOptimization, run once executeOptimization rejected
CatchHandler(j) ==
  /\ j \in DOMAIN jobs
  /\ frame[j].pc = "rejected"
  /\ promise[j].state = "rejected"
  /\ promise[j].catch
  /\ jobs' = [jobs EXCEPT ![j] = FailedJob(@, promise[j].reason)]
  /\ frame' = [frame EXCEPT ![j].pc = "handled"]
  /\ promise' = [promise EXCEPT ![j].state = "handled"]
  /\ trace' = [trace EXCEPT ![j] = Append(@, StatusEv("failed"))]
  /\ UNCHANGED <<submitted, db, createdVia, httpVars>>

\* a lookup that finds nothing
getMissing(store, jobId) == None

\* Map.prototype.get of a job store: the job, or undefined
get(store, jobId) == IF jobId \in DOMAIN store THEN Some(store[jobId]) ELSE None

\* getOptimizationStatus: it reads the store and changes nothing, so a poll at
\* any time is this operator evaluated in the state of that time
getOptimizationStatus(jobId) ==
  LET job == get(jobs, jobId) IN
  IF job = None
  THEN Throw("Job not found")
  ELSE Ok([id |-> job[1].id, status |-> job[1].status, endTime |-> job[1].endTime,
           results |-> job[1].results, error |-> job[1].error])

\* jobs executed one after the other: a job resumes only when every job
\* submitted before it has ended
StepSerialized(j) ==
  /\ \A k \in 1..(j - 1) : frame[k].pc \in {"done", "rejected", "handled"}
  /\ \/ AfterGenerate(j)
     \/ \E outcome \in CreateForkOutcomes : AfterCreateForkA(j, outcome)
     \/ \E outcome \in CreateForkOutcomes : AfterCreateForkB(j, outcome)
     \/ \E outcome \in {"ok", "throw"} : ApplyIndex(j, outcome)
     \/ AfterApply(j)
     \/ TestsAThrow(j)
     \/ \E rs \in PerformanceResults(frame[j].queries) : AfterTestsA(j, rs)
     \/ \E rs \in PerformanceResults(frame[j].queries) : AfterTestsB(j, rs)
     \/ \E outcome \in DeleteForkOutcomes : AfterFinallyDelete(j, outcome)
     \/ \E outcome \in DeleteForkOutcomes : AfterCatchDelete(j, outcome)
     \/ CatchHandler(j)

\* executeOptimization(job) resumes after one of its awaits
Step(j) ==
  \/ AfterGenerate(j)
  \/ \E outcome \in CreateForkOutcomes : AfterCreateForkA(j, outcome)
  \/ \E outcome \in CreateForkOutcomes : AfterCreateForkB(j, outcome)
  \/ \E outcome \in {"ok", "throw"} : ApplyIndex(j, outcome)
  \/ AfterApply(j)
  \/ TestsAThrow(j)
  \/ \E rs \in PerformanceResults(frame[j].queries) : AfterTestsA(j, rs)
  \/ \E rs \in PerformanceResults(frame[j].queries) : AfterTestsB(j, rs)
  \/ \E outcome \in DeleteForkOutcomes : AfterFinallyDelete(j, outcome)
  \/ \E outcome \in DeleteForkOutcomes : AfterCatchDelete(j, outcome)
  \/ CatchHandler(j)

Next ==
  \/ \E j \in JobIds, w \in Workloads : Submit(j, w)
  \/ \E j \in JobIds : Step(j)

Spec == Init /\ [][Next]_vars

\* every await of a job resumes: each fork-service and database call returns or throws
FairSpec == Spec /\ \A j \in JobIds : WF_vars(Step(j))

\* ------------------------------------------- single calls, examined alone
\* everything but the call under examination
programVars == <<jobs, frame, promise, submitted, db, createdVia, trace,
                 hjobs, htimers, hissued, hreply, hswept, now>>

\* the improvement percentages compareResults can hand to generateRecommendation:
\* the tenths from -MaxTenths to MaxTenths, NaN (0/0) and the two infinities
Percentages ==
  {Frac(n, 10) : n \in (-MaxTenths)..MaxTenths} \cup {Frac(0, 0), Frac(1, 0), Frac(-1, 0)}

\* the improvement object of compareResults for a percentage
Improvements ==
  {[percentage |-> p, faster |-> IF Gt(p, 0) THEN "strategyB" ELSE "strategyA"] :
     p \in Percentages}

\* one call generateRecommendation(comparison)
RecommendInit ==
  /\ Constructed
  /\ call \in {[method |-> "generateRecommendation", comparison |-> [improvement |-> i],
                 result |-> None] : i \in Improvements}

Recommend ==
  /\ call.method = "generateRecommendation"
  /\ call.result = None
  /\ call' = [call EXCEPT !.result = Some(generateRecommendation(call.comparison))]
  /\ UNCHANGED programVars

RecommendSpec == RecommendInit /\ [][Recommend]_vars

\* the execution times of the samples of an examined comparison
CompareTimes == {0, 10, 20}

\* the arrays of at most MaxSamples samples, measured or failed, that
\* runPerformanceTests can hand to compareResults for one query text
SampleArrays ==
  LET samples == {MeasuredSample(SelectQuery, t) : t \in CompareTimes}
                   \cup {FailedSample(SelectQuery)}
  IN UNION {[1..n -> samples] : n \in 0..MaxSamples}

\* the two strategies' names, as compareResults reads them
NamedStrategies ==
  [strategyA |-> [name |-> "Basic Single-Column Strategy"],
   strategyB |-> [name |-> "Advanced Composite Strategy"]]

\* one analysis of two result arrays: compareResults, then generateRecommendation
CompareInit ==
  /\ Constructed
  /\ call \in {[method |-> "compareResults", resultsA |-> ra, resultsB |-> rb,
                 result |-> None] : ra \in SampleArrays, rb \in SampleArrays}

Compare ==
  /\ call.method = "compareResults"
  /\ call.result = None
  /\ LET comparison == compareResults(NamedStrategies, call.resultsA, call.resultsB) IN
       call' = [call EXCEPT !.result =
                  Some([comparison |-> comparison,
                        recommendation |-> generateRecommendation(comparison)])]
  /\ UNCHANGED programVars

CompareSpec == CompareInit /\ [][Compare]_vars

\* ---------------------------------- ValidatorAgent.runPerformanceTests
\* `for (let i = 0; i < 3; i++)`: the runs per query
Runs == 3

\* how one explainAnalyze(connectionString, query) can end: it returns the
\* plan with its execution and planning time, or it throws
RunOutcomes ==
  {[ok |-> TRUE, executionTime |-> 10, planningTime |-> 1, plan |-> "plan-1"],
   [ok |-> TRUE, executionTime |-> 12, planningTime |-> 2, plan |-> "plan-2"],
   [ok |-> TRUE, executionTime |-> 14, planningTime |-> 6, plan |-> "plan-3"],
   [ok |-> FALSE, msg |-> "explain failed"]}

RECURSIVE SumField(_, _)
\* runs.reduce((sum, run) => sum + run[field], 0)
SumField(runs, field) ==
  IF runs = <<>> THEN 0 ELSE Head(runs)[field] + SumField(Tail(runs), field)

\* a catch that lets the error of a query escape
catchQueryRethrow(query, msg) == Throw(msg)

\* the catch block of one query: a sample {query, error, executionTime: null,
\* planningTime: null}
catchQuery(query, msg) ==
  Ok([query |-> query, error |-> msg, executionTime |-> None, planningTime |-> None])

\* the try block of one query: the runs are made in order, the first one that
\* throws ends them and enters the catch block; after Runs runs that returned,
\* the sample holds their means and the last run's plan
measureQuery(query, outcomes) ==
  IF \E i \in 1..Runs : ~outcomes[i].ok
  THEN LET first == CHOOSE i \in 1..Runs :
                      ~outcomes[i].ok /\ \A k \in 1..(i - 1) : outcomes[k].ok
       IN catchQuery(query, outcomes[first].msg)
  ELSE LET runs == [i \in 1..Runs |-> outcomes[i]]
           latestRun == runs[Len(runs)]
       IN Ok([query |-> query,
              executionTime |-> Some(Frac(SumField(runs, "executionTime"), Len(runs))),
              planningTime |-> Some(Frac(SumField(runs, "planningTime"), Len(runs))),
              plan |-> latestRun.plan,
              runs |-> Len(runs),
              error |-> NULL])

RECURSIVE testLoop(_, _, _)
\* `for (const query of queries)`: one sample is pushed per query, in order
testLoop(queries, outcomes, results) ==
  IF queries = <<>>
  THEN Ok(results)
  ELSE LET sample == measureQuery(Head(queries), Head(outcomes)) IN
       IF ~sample.ok THEN Throw(sample.msg)
       ELSE testLoop(Tail(queries), Tail(outcomes), Append(results, Val(sample)))

\* ValidatorAgent.runPerformanceTests, given what each explainAnalyze call does
runPerformanceTests(queries, outcomes) == testLoop(queries, outcomes, <<>>)

\* the query arrays of an examined call, and what the runs of each query do
MeasuredQueries == <<SelectQuery, WhereQuery, DropQuery>>
QueryArrays == {SubSeq(MeasuredQueries, 1, n) : n \in 0..MaxMeasured}

MeasureInit ==
  /\ Constructed
  /\ \E qs \in QueryArrays :
       call \in {[method |-> "runPerformanceTests", queries |-> qs, outcomes |-> os,
                  result |-> None] : os \in [1..Len(qs) -> [1..Runs -> RunOutcomes]]}

Measure ==
  /\ call.method = "runPerformanceTests"
  /\ call.result = None
  /\ call' = [call EXCEPT !.result = Some(runPerformanceTests(call.queries, call.outcomes))]
  /\ UNCHANGED programVars

MeasureSpec == MeasureInit /\ [][Measure]_vars

\* ------------------------------------ ValidatorAgent.extractPlanMetrics
\* An object is a function from its keys; a key it does not have reads as
\* undefined, which is falsy. Numbers are truthy unless 0.
\* TigerService.explainAnalyze, given the value of result.rows[0]['QUERY PLAN']:
\* the plan it returns is that array's first element, the object from which it
\* also reads 'Execution Time' and 'Planning Time'
explainAnalyze(queryPlan) ==
  [plan |-> queryPlan[1],
   executionTime |-> queryPlan[1]["Execution Time"],
   planningTime |-> queryPlan[1]["Planning Time"]]

RECURSIVE analyzePlanNode(_, _)
\* ValidatorAgent.analyzePlanNode: the node's scan kind and buffer counters are
\* added to the metrics, then those of each child plan in node.Plans
analyzePlanNode(node, metrics) ==
  LET type == IF "Node Type" \in DOMAIN node THEN node["Node Type"] ELSE NULL
      hits == IF "Shared Hit Blocks" \in DOMAIN node THEN node["Shared Hit Blocks"] ELSE 0
      reads == IF "Shared Read Blocks" \in DOMAIN node THEN node["Shared Read Blocks"] ELSE 0
      counted ==
        [metrics EXCEPT
           !.indexScans = IF type \in {"Index Scan", "Index Only Scan", "Bitmap Index Scan"}
                          THEN @ + 1 ELSE @,
           !.seqScans = IF type = "Seq Scan" THEN @ + 1 ELSE @,
           !.bufferHits = @ + hits,
           !.bufferReads = @ + reads]
      RECURSIVE forEach(_, _)
      forEach(plans, m) ==
        IF plans = <<>> THEN m ELSE forEach(Tail(plans), analyzePlanNode(Head(plans), m))
  IN IF "Plans" \in DOMAIN node THEN forEach(node["Plans"], counted) ELSE counted

\* ValidatorAgent.extractPlanMetrics
extractPlanMetrics(plan) ==
  analyzePlanNode(plan,
    [totalCost |-> IF "Total Cost" \in DOMAIN plan THEN plan["Total Cost"] ELSE 0,
     actualRows |-> IF "Actual Rows" \in DOMAIN plan THEN plan["Actual Rows"] ELSE 0,
     actualLoops |-> IF "Actual Loops" \in DOMAIN plan /\ plan["Actual Loops"] # 0
                     THEN plan["Actual Loops"] ELSE 1,
     indexScans |-> 0, seqScans |-> 0, bufferHits |-> 0, bufferReads |-> 0])

\* The calls examined: the output of EXPLAIN (ANALYZE, BUFFERS, FORMAT JSON) for
\* a plan tree, a one-element array whose element holds the root node under
\* 'Plan' beside the two times. The trees have scan and join nodes, with and
\* without buffer counters, and child plans nested up to MaxDepth deep.
MetricsInit ==
  /\ Constructed
  /\ LET scan(type) == ("Node Type" :> type) @@ ("Total Cost" :> 7) @@ ("Actual Rows" :> 5)
         buffers == ("Shared Hit Blocks" :> 2) @@ ("Shared Read Blocks" :> 1)
         leaves == UNION {{scan(type), scan(type) @@ buffers} :
                            type \in {"Index Scan", "Index Only Scan", "Bitmap Index Scan",
                                      "Seq Scan", "Result"}}
         inner == {scan("Nested Loop") @@ buffers, scan("Seq Scan")}
         RECURSIVE trees(_)
         trees(d) ==
           IF d = 0 THEN leaves
           ELSE leaves
                  \cup {n @@ ("Plans" :> <<c>>) : n \in inner, c \in trees(d - 1)}
                  \cup {n @@ ("Plans" :> <<l, c>>) :
                          n \in inner, l \in {scan("Index Scan") @@ buffers, scan("Seq Scan")},
                          c \in trees(d - 1)}
     IN call \in {[method |-> "extractPlanMetrics",
                   queryPlan |-> << ("Plan" :> root) @@ ("Planning Time" :> 1)
                                      @@ ("Execution Time" :> 10) >>,
                   result |-> None] : root \in trees(MaxDepth)}

\* runPerformanceTests, line 55: this.extractPlanMetrics(latestRun.plan) for the
\* run explainAnalyze returned
ExtractMetrics ==
  /\ call.method = "extractPlanMetrics"
  /\ call.result = None
  /\ call' = [call EXCEPT !.result =
                Some(extractPlanMetrics(explainAnalyze(call.queryPlan).plan))]
  /\ UNCHANGED programVars

MetricsSpec == MetricsInit /\ [][ExtractMetrics]_vars

\* ------------------------------------------------- sanitizeIdentifier
\* the characters of an examined identifier: letters of both cases that spell
\* a reserved keyword, a digit, the underscore, and a character outside
\* [a-zA-Z0-9_]
IdChars == {"d", "R", "o", "p", "1", "_", ";"}

\* the table name `users; DROP TABLE x`
InjectionName ==
  <<"u","s","e","r","s",";"," ","D","R","O","P"," ","T","A","B","L","E"," ","x">>

\* the strings handed to sanitizeIdentifier
Identifiers == UNION {[1..n -> IdChars] : n \in 0..MaxIdLen} \cup {InjectionName}

\* the two classes that have a sanitizeIdentifier method
Agents == {"IndexTunerAgent", "ValidatorAgent"}

sanitizeIdentifierOf(agent, identifier) ==
  IF agent = "IndexTunerAgent" THEN sanitizeIdentifier(identifier)
  ELSE validatorSanitizeIdentifier(identifier)

\* one call sanitizeIdentifier(identifier), and a second call on what it returned
SanitizeInit ==
  /\ Constructed
  /\ call \in {[method |-> "sanitizeIdentifier", agent |-> a, identifier |-> s,
                 result |-> None, again |-> None] : a \in Agents, s \in Identifiers}

Sanitize ==
  /\ call.method = "sanitizeIdentifier"
  /\ call.result = None
  /\ call' = [call EXCEPT !.result = Some(sanitizeIdentifierOf(call.agent, call.identifier))]
  /\ UNCHANGED programVars

SanitizeAgain ==
  /\ call.method = "sanitizeIdentifier"
  /\ call.result # None
  /\ call.result[1].ok
  /\ call.again = None
  /\ call' = [call EXCEPT !.again =
                 Some(sanitizeIdentifierOf(call.agent, Val(call.result[1])))]
  /\ UNCHANGED programVars

SanitizeSpec == SanitizeInit /\ [][Sanitize \/ SanitizeAgain]_vars

\* --------------------------------- the index tools, each call examined alone
\* the query texts examined:
\*   email: the query of the analyzer's determinism scenario: SELECT * FROM users WHERE email = 'a@example.com';
\*   orders: the query of the end-to-end scenario: SELECT * FROM orders WHERE status = 'completed' ORDER BY created_at DESC;
\*   join: a join, a pattern match and a comparison whose left side is a number: select * from t join u on a = b where c like 'x' and 1 < d limit 5
\*   range: set membership and a range, with a line break and a double space: SELECT a FROM t\nWHERE  a IN (1) AND total BETWEEN 1 AND 2 GROUP BY a, b
\*   keyword: columns that are reserved keywords: select * from t where table = 1 order by select, a desc
\*   broken: text that is no query: nowhere =1 order by ,desc,, x; limit
AnalyzerTexts ==
  [email |->
     << <<"S","E","L","E","C","T">>, <<" ">>, <<"*">>, <<" ">>, <<"F","R","O","M">>,
     <<" ">>, <<"u","s","e","r","s">>, <<" ">>, <<"W","H","E","R","E">>, <<" ">>,
     <<"e","m","a","i","l">>, <<" ">>, <<"=">>, <<" ">>, <<"'">>, <<"a">>, <<"@">>,
     <<"e","x","a","m","p","l","e">>, <<".">>, <<"c","o","m">>, <<"'">>, <<";">> >>,
   orders |->
     << <<"S","E","L","E","C","T">>, <<" ">>, <<"*">>, <<" ">>, <<"F","R","O","M">>,
     <<" ">>, <<"o","r","d","e","r","s">>, <<" ">>, <<"W","H","E","R","E">>, <<" ">>,
     <<"s","t","a","t","u","s">>, <<" ">>, <<"=">>, <<" ">>, <<"'">>,
     <<"c","o","m","p","l","e","t","e","d">>, <<"'">>, <<" ">>,
     <<"O","R","D","E","R">>, <<" ">>, <<"B","Y">>, <<" ">>,
     <<"c","r","e","a","t","e","d","_","a","t">>, <<" ">>, <<"D","E","S","C">>,
     <<";">> >>,
   join |->
     << <<"s","e","l","e","c","t">>, <<" ">>, <<"*">>, <<" ">>, <<"f","r","o","m">>,
     <<" ">>, <<"t">>, <<" ">>, <<"j","o","i","n">>, <<" ">>, <<"u">>, <<" ">>,
     <<"o","n">>, <<" ">>, <<"a">>, <<" ">>, <<"=">>, <<" ">>, <<"b">>, <<" ">>,
     <<"w","h","e","r","e">>, <<" ">>, <<"c">>, <<" ">>, <<"l","i","k","e">>, <<" ">>,
     <<"'">>, <<"x">>, <<"'">>, <<" ">>, <<"a","n","d">>, <<" ">>, <<"1">>, <<" ">>,
     <<"<">>, <<" ">>, <<"d">>, <<" ">>, <<"l","i","m","i","t">>, <<" ">>, <<"5">> >>,
   range |->
     << <<"S","E","L","E","C","T">>, <<" ">>, <<"a">>, <<" ">>, <<"F","R","O","M">>,
     <<" ">>, <<"t">>, <<"\n">>, <<"W","H","E","R","E">>, <<" ">>, <<" ">>, <<"a">>,
     <<" ">>, <<"I","N">>, <<" ">>, <<"(">>, <<"1">>, <<")">>, <<" ">>,
     <<"A","N","D">>, <<" ">>, <<"t","o","t","a","l">>, <<" ">>,
     <<"B","E","T","W","E","E","N">>, <<" ">>, <<"1">>, <<" ">>, <<"A","N","D">>,
     <<" ">>, <<"2">>, <<" ">>, <<"G","R","O","U","P">>, <<" ">>, <<"B","Y">>, <<" ">>,
     <<"a">>, <<",">>, <<" ">>, <<"b">> >>,
   keyword |->
     << <<"s","e","l","e","c","t">>, <<" ">>, <<"*">>, <<" ">>, <<"f","r","o","m">>,
     <<" ">>, <<"t">>, <<" ">>, <<"w","h","e","r","e">>, <<" ">>,
     <<"t","a","b","l","e">>, <<" ">>, <<"=">>, <<" ">>, <<"1">>, <<" ">>,
     <<"o","r","d","e","r">>, <<" ">>, <<"b","y">>, <<" ">>,
     <<"s","e","l","e","c","t">>, <<",">>, <<" ">>, <<"a">>, <<" ">>,
     <<"d","e","s","c">> >>,
   broken |->
     << <<"n","o","w","h","e","r","e">>, <<" ">>, <<"=">>, <<"1">>, <<" ">>,
     <<"o","r","d","e","r">>, <<" ">>, <<"b","y">>, <<" ">>, <<",">>,
     <<"d","e","s","c">>, <<",">>, <<",">>, <<" ">>, <<"x">>, <<";">>, <<" ">>,
     <<"l","i","m","i","t">> >>]

\* the texts above and every piece of at most MaxFragment tokens of one of them
\* (a truncated query, a clause on its own, a keyword without its operand)
QueryTexts ==
  LET texts == {AnalyzerTexts[f] : f \in DOMAIN AnalyzerTexts} IN
  texts \cup
    UNION {UNION {{SubSeq(t, i, k) : k \in {x \in (i - 1)..Len(t) : x - i < MaxFragment}} :
                    i \in 1..Len(t)} : t \in texts}

\* The calls examined: generateIndexStrategies(queries, tableName) for one text
\* each and for some arrays of texts with every table name, and the MCP tools
\* create_index and drop_index with their arguments.
ToolsInit ==
  /\ Constructed
  /\ LET tableNames == {<<"t">>, <<"o","r","d","e","r","s">>, InjectionName, <<"1", "t">>,
                        <<";">>, <<"T","a","b","l","e">>, <<>>}
         arrays == {<<AnalyzerTexts.email>>, <<AnalyzerTexts.orders>>,
                    <<AnalyzerTexts.keyword>>, <<AnalyzerTexts.broken>>,
                    <<AnalyzerTexts.join, AnalyzerTexts.range>>,
                    <<AnalyzerTexts.range, AnalyzerTexts.join, AnalyzerTexts.orders>>, <<>>}
         names == {<<"t">>, <<"i","d","x","_","t","_","a">>, InjectionName, <<"1", "t">>}
         columns == {<<>>, << <<"a">> >>, << <<"a">>, <<"b", ")", ";">> >>}
         tuner(qs, t) == [method |-> "generateIndexStrategies", queries |-> qs,
                          tableName |-> t, analysis |-> None, between |-> None,
                          again |-> None, result |-> None, dropped |-> None]
     IN call \in
          {tuner(<<q>>, <<"t">>) : q \in QueryTexts}
            \cup {tuner(qs, t) : qs \in arrays, t \in tableNames}
            \cup {[method |-> "create_index",
                   args |-> [indexName |-> i, tableName |-> t, columns |-> c,
                             indexType |-> "btree"],
                   sent |-> None] : i \in names, t \in names, c \in columns}
            \cup {[method |-> "drop_index", args |-> [indexName |-> i], sent |-> None] :
                    i \in names}

\* generateIndexStrategies, line 8: the analysis
AnalyzeQueries ==
  /\ call.method = "generateIndexStrategies"
  /\ call.analysis = None
  /\ call' = [call EXCEPT !.analysis = Some(analyzeQueries(call.queries, call.tableName))]
  /\ UNCHANGED programVars

\* the same IndexTunerAgent analyses the same queries once more, right away
\* (other = None) or after it has analysed another text
AnalyzeAgain(other) ==
  /\ call.method = "generateIndexStrategies"
  /\ call.analysis # None
  /\ call.again = None
  /\ LET before == IF other = None THEN call.analysis[1]
                   ELSE analyzeQueries(<<other[1]>>, call.tableName)
         left == IF before.ok THEN Some(Val(before).patterns) ELSE None
     IN call' = [call EXCEPT !.between = Some(other),
                             !.again = Some(analyzeQueriesFrom(newPatterns(left),
                                                               call.queries, call.tableName))]
  /\ UNCHANGED programVars

\* generateIndexStrategies, lines 10-14: the two strategies of the analysis
GenerateStrategies ==
  /\ call.method = "generateIndexStrategies"
  /\ call.analysis # None
  /\ call.analysis[1].ok
  /\ call.result = None
  /\ LET analysis == Val(call.analysis[1]) IN
       call' = [call EXCEPT !.result =
                  Some([strategyA |-> generateBasicStrategy(analysis),
                        strategyB |-> generateAdvancedStrategy(analysis),
                        returned |-> generateIndexStrategies(analysis)])]
  /\ UNCHANGED programVars

\* ValidatorAgent.cleanupIndexes for each of the two strategies generated: the
\* statements it hands to executeQuery, one for every index whose name its
\* sanitizeIdentifier accepts
CleanupIndexes ==
  /\ call.method = "generateIndexStrategies"
  /\ call.result # None
  /\ call.result[1].returned.ok
  /\ call.dropped = None
  /\ LET cleanupIndexes(strategy) ==
           LET names == [i \in 1..Len(strategy.indexes) |->
                           validatorSanitizeIdentifier(strategy.indexes[i].name)]
               accepted == SelectSeq(names, LAMBDA r : r.ok)
           IN [i \in 1..Len(accepted) |->
                 <<Lit("DROP INDEX IF EXISTS "), Hole(Val(accepted[i])), Lit(";")>>]
         strategies == Val(call.result[1].returned)
     IN call' = [call EXCEPT !.dropped =
                   Some(cleanupIndexes(strategies.strategyA)
                          \o cleanupIndexes(strategies.strategyB))]
  /\ UNCHANGED programVars

\* TigerMCPServer.handleCreateIndex: the statement it hands to executeQuery
HandleCreateIndex ==
  /\ call.method = "create_index"
  /\ call.sent = None
  /\ LET args == call.args IN
       call' = [call EXCEPT !.sent =
                  Some(<< <<Lit("CREATE INDEX "), Hole(args.indexName), Lit(" ON "),
                           Hole(args.tableName), Lit(" USING "),
                           Lit(args.indexType), Lit(" (")>>
                            \o join(args.columns) \o <<Lit(")"), Lit(";")>> >>)]
  /\ UNCHANGED programVars

\* TigerMCPServer.handleDropIndex: the statement it hands to executeQuery
HandleDropIndex ==
  /\ call.method = "drop_index"
  /\ call.sent = None
  /\ call' = [call EXCEPT !.sent =
                Some(<< <<Lit("DROP INDEX IF EXISTS "), Hole(call.args.indexName),
                         Lit(";")>> >>)]
  /\ UNCHANGED programVars

ToolsSpec ==
  ToolsInit
    /\ [][\/ AnalyzeQueries
          \/ \E other \in {None} \cup {Some(AnalyzerTexts[f]) : f \in {"email", "orders", "join"}} :
               AnalyzeAgain(other)
          \/ GenerateStrategies
          \/ CleanupIndexes
          \/ HandleCreateIndex
          \/ HandleDropIndex]_vars

\* ------------------------------------------------------------- HTTP server
JOB_TTL == 3600000
SweepInterval == 600000
CompletionDelay == 5000

dangerousKeywords ==
  { <<"D","R","O","P">>, <<"D","E","L","E","T","E">>, <<"T","R","U","N","C","A","T","E">>,
    <<"A","L","T","E","R">>, <<"G","R","A","N","T">>, <<"R","E","V","O","K","E">> }

\* validateQuery
validateQuery(query) ==
  /\ query.isString
  /\ ~(query.length > MaxQueryLength)
  /\ ~\E i \in 1..Len(query.words) : toUpperCase(query.words[i]) \in dangerousKeywords

\* the request bodies a client may post
HttpRequests ==
  { [queries |-> <<SelectQuery>>, tableName |-> <<"t">>],
    [queries |-> <<SelectQuery, SelectQuery>>, tableName |-> <<>>],
    [queries |-> <<>>, tableName |-> <<"t">>],
    [queries |-> [i \in 1..(MaxQueries + 1) |-> SelectQuery], tableName |-> <<"t">>],
    [queries |-> <<SelectQuery, DropQuery>>, tableName |-> <<"t">>],
    [queries |-> <<LongQuery>>, tableName |-> <<"t">>],
    [queries |-> <<SelectQuery>>, tableName |-> <<"t", ";">>] }

\* the demo means the completion timer can draw: 45 + random*20 and 25 + random*15
DemoTimesA == {45, 64}
DemoTimesB == {25, 39}

Reply(code, body) == [code |-> code, body |-> body]

\* POST /api/optimize: the status-400 replies of its validation, in its order
PostRejection(req) ==
  IF Len(req.queries) = 0 THEN "INVALID_QUERIES"
  ELSE IF Len(req.queries) > MaxQueries THEN "TOO_MANY_QUERIES"
  ELSE IF \E i \in 1..Len(req.queries) : ~validateQuery(req.queries[i]) THEN "INVALID_QUERY"
  ELSE IF req.tableName # <<>> /\ \E i \in 1..Len(req.tableName) : ~IsWordChar(req.tableName[i])
  THEN "INVALID_TABLE_NAME"
  ELSE "none"

\* what Math.random() may return, a number of [0, 1), as the digits of its
\* base-36 expansion after the point: 0 (no digit) and a number with more than
\* nine digits
Randoms == {<<>>, <<"3","l","l","l","l","l","l","l","l","l","q">>}

\* Math.random().toString(36).substring(2, 11): the expansion is `0` for 0 and
\* `0.` and the digits otherwise
jobIdSuffix(random) ==
  LET toString == IF random = <<>> THEN <<"0">> ELSE <<"0", ".">> \o random
  IN SubSeq(toString, 3, IF Len(toString) < 11 THEN Len(toString) ELSE 11)

\* POST /api/optimize: a rejected request changes nothing; an accepted one stores
\* a 'running' job under a new id and sets the completion timer. The id
\* job_<Date.now()>_<suffix> is the pair of a number that stands for the
\* milliseconds and the suffix.
HttpPost(req, random) ==
  /\ hissued < MaxHttpJobs
  /\ IF PostRejection(req) # "none"
     THEN /\ hreply' = Reply(400, PostRejection(req))
          /\ UNCHANGED <<hjobs, htimers, hissued>>
     ELSE LET jobId == <<hissued + 1, jobIdSuffix(random)>> IN
          /\ hjobs' = (jobId :> [id |-> jobId, status |-> "running", startTime |-> now,
                                 endTime |-> NULL, queries |-> Len(req.queries),
                                 tableName |-> IF req.tableName = <<>> THEN <<"unknown">>
                                               ELSE req.tableName,
                                 results |-> None]) @@ hjobs
          /\ htimers' = htimers \cup {[id |-> jobId, due |-> now + CompletionDelay]}
          /\ hissued' = hissued + 1
          /\ hreply' = [code |-> 200, body |-> "started", jobId |-> jobId]
  /\ UNCHANGED <<hswept, now, orchVars>>

\* the demo results with confidence medium for an improvement above 15 only
DemoResultsMediumAbove15(avgTimeA, avgTimeB) ==
  LET improvement == Frac((avgTimeA - avgTimeB) * 100, avgTimeA) IN
  [comparison |->
     [avgTimeA |-> avgTimeA, avgTimeB |-> avgTimeB, percentage |-> improvement,
      faster |-> IF Gt(improvement, 0) THEN "strategyB" ELSE "strategyA"],
   recommendation |->
     [action |-> IF Gt(improvement, 5) THEN "apply_strategy" ELSE "no_change",
      strategy |-> IF Gt(improvement, 0) THEN "strategyB" ELSE "strategyA",
      confidence |-> IF Gt(AbsF(improvement), 20) THEN "high"
                     ELSE IF Gt(improvement, 15) THEN "medium" ELSE "low"]]

\* the demo results' comparison and recommendation
DemoResults(avgTimeA, avgTimeB) ==
  LET improvement == Frac((avgTimeA - avgTimeB) * 100, avgTimeA) IN
  [comparison |->
     [avgTimeA |-> avgTimeA, avgTimeB |-> avgTimeB, percentage |-> improvement,
      faster |-> IF Gt(improvement, 0) THEN "strategyB" ELSE "strategyA"],
   recommendation |->
     [action |-> IF Gt(improvement, 5) THEN "apply_strategy" ELSE "no_change",
      strategy |-> IF Gt(improvement, 0) THEN "strategyB" ELSE "strategyA",
      confidence |-> IF Gt(AbsF(improvement), 20) THEN "high"
                     ELSE IF Gt(improvement, 10) THEN "medium" ELSE "low"]]

\* the completion timer of a job: if the job is still stored it becomes
\* 'completed' with demo results
HttpTimer(t, avgTimeA, avgTimeB) ==
  /\ t \in htimers
  /\ t.due <= now
  /\ htimers' = htimers \ {t}
  /\ IF t.id \in DOMAIN hjobs
     THEN hjobs' = [hjobs EXCEPT ![t.id].status = "completed",
                                 ![t.id].endTime = now,
                                 ![t.id].results = Some(DemoResults(avgTimeA, avgTimeB))]
     ELSE UNCHANGED hjobs
  /\ UNCHANGED <<hissued, hreply, hswept, now, orchVars>>

\* the setInterval callback: every job older than JOB_TTL is deleted
HttpSweep ==
  /\ now > 0
  /\ now % SweepInterval = 0
  /\ hswept < now
  /\ hswept' = now
  /\ hjobs' = [id \in {i \in DOMAIN hjobs : ~(now - hjobs[i].startTime > JOB_TTL)}
                 |-> hjobs[id]]
  /\ UNCHANGED <<htimers, hissued, hreply, now, orchVars>>

\* the next instant at which a timer or the sweep is due
NextInstant ==
  LET sweep == (now \div SweepInterval + 1) * SweepInterval
      dues == {t.due : t \in htimers} \cup {sweep}
  IN CHOOSE d \in dues : \A e \in dues : d <= e

\* time passes up to the next due callback; callbacks that are due run first
Advance ==
  /\ \A t \in htimers : t.due > now
  /\ (now > 0 /\ now % SweepInterval = 0) => hswept = now
  /\ NextInstant <= MaxTime
  /\ now' = NextInstant
  /\ UNCHANGED <<hjobs, htimers, hissued, hreply, hswept, orchVars>>

\* the ids a client may ask for: an id the server can generate, which it has
\* issued or not, or a string job_<digits>_<suffix> with another suffix
GetRequests ==
  {[jobId |-> <<n, jobIdSuffix(random)>>] : n \in 1..(MaxHttpJobs + 1), random \in Randoms}
    \cup {[jobId |-> <<0, <<"-">>>>]}

\* /^job_\d+_[a-z0-9]+$/.test(jobId)
jobIdFormat(jobId) ==
  /\ jobId[2] # <<>>
  /\ \A i \in 1..Len(jobId[2]) :
       jobId[2][i] \in {"0","1","2","3","4","5","6","7","8","9",
                        "a","b","c","d","e","f","g","h","i","j","k","l","m",
                        "n","o","p","q","r","s","t","u","v","w","x","y","z"}

\* GET /api/optimize/:jobId: 400 for an id of the wrong form, 404 for an id that
\* is not stored, and otherwise the stored job
HttpGet(req) ==
  /\ hreply' =
       LET job == get(hjobs, req.jobId) IN
       IF ~jobIdFormat(req.jobId)
       THEN [code |-> 400, body |-> "INVALID_JOB_ID", request |-> req, job |-> None]
       ELSE IF job = None
       THEN [code |-> 404, body |-> "JOB_NOT_FOUND", request |-> req, job |-> None]
       ELSE [code |-> 200, body |-> "job", request |-> req, job |-> job]
  /\ UNCHANGED <<hjobs, htimers, hissued, hswept, now, orchVars>>

HttpNext ==
  \/ \E req \in HttpRequests, random \in Randoms : HttpPost(req, random)
  \/ \E req \in GetRequests : HttpGet(req)
  \/ \E t \in htimers, a \in DemoTimesA, b \in DemoTimesB : HttpTimer(t, a, b)
  \/ HttpSweep
  \/ Advance

HttpSpec == Init /\ [][HttpNext]_vars

\* ------------------------- the completion timer's results, each draw alone
\* the means a completion timer can draw, in whole milliseconds: 45 +
\* Math.random() * 20 is a number of [45, 65) and 25 + Math.random() * 15 one
\* of [25, 40)
DemoInit ==
  /\ Constructed
  /\ call \in {[method |-> "completion", avgTimeA |-> a, avgTimeB |-> b, results |-> None] :
                 a \in 45..64, b \in 25..39}

\* the completion timer computes the job's results from its draws
CompleteDemo ==
  /\ call.method = "completion"
  /\ call.results = None
  /\ call' = [call EXCEPT !.results = Some(DemoResults(call.avgTimeA, call.avgTimeB))]
  /\ UNCHANGED programVars

DemoSpec == DemoInit /\ [][CompleteDemo]_vars

\* ------------------------------------------------ the client's demo run
\* simulateOptimizationProgress: the statuses shown and the delay after each
steps ==
  << [status |-> "generating_strategies", delay |-> 1000],
     [status |-> "creating_forks", delay |-> 2000],
     [status |-> "applying_strategies", delay |-> 1500],
     [status |-> "running_tests", delay |-> 3000],
     [status |-> "analyzing_results", delay |-> 1000],
     [status |-> "completed", delay |-> 500] >>

\* handleOptimizationStart has set isRunning and cleared the optimization
\* state, and calls runDemoOptimization(queries) for an array of some length.
\* The clock counts the milliseconds since then; timers holds the pending
\* setTimeout callbacks with the instant each is due.
ClientInit ==
  /\ Constructed
  /\ call \in {[method |-> "runDemoOptimization", queries |-> n, pc |-> "start",
                 clock |-> 0, optimization |-> None, isRunning |-> TRUE,
                 currentStep |-> 0, timers |-> {}] : n \in 0..2}

\* runDemoOptimization up to its return: simulateOptimizationProgress runs the
\* first processStep, whose update is applied to the state, and sets the timer
\* of the next; then the timer of the results is set
runDemoOptimization ==
  /\ call.method = "runDemoOptimization"
  /\ call.pc = "start"
  /\ call' = [call EXCEPT
                !.pc = "timers",
                !.optimization = Some([status |-> steps[1].status, startTime |-> call.clock,
                                       endTime |-> None, results |-> None, error |-> None]),
                !.timers = {[callback |-> "processStep", due |-> call.clock + steps[1].delay],
                            [callback |-> "results", due |-> call.clock + 8000]}]
  /\ UNCHANGED programVars

\* the timer callback of simulateOptimizationProgress, run at its due instant
\* or late: the next step, if there is one, updates the state (keeping the
\* other fields of the previous state) and sets the timer of its successor.
\* Timers run in the order of their due instants, and in the order they were
\* set when those are equal.
processStep(late) ==
  /\ call.method = "runDemoOptimization"
  /\ \E t \in call.timers :
       /\ t.callback = "processStep"
       /\ \A u \in call.timers : u.callback = "results" => t.due < u.due
       /\ LET at == IF call.clock > t.due + late THEN call.clock ELSE t.due + late
              currentStep == call.currentStep + 1
              prev == call.optimization[1]
          IN call' =
               IF currentStep < Len(steps)
               THEN [call EXCEPT
                       !.clock = at,
                       !.currentStep = currentStep,
                       !.optimization =
                          Some([prev EXCEPT !.status = steps[currentStep + 1].status,
                                            !.results = None, !.error = None]),
                       !.timers = (call.timers \ {t})
                                    \cup {[callback |-> "processStep",
                                           due |-> at + steps[currentStep + 1].delay]}]
               ELSE [call EXCEPT !.clock = at, !.currentStep = currentStep,
                                 !.timers = call.timers \ {t}]
  /\ UNCHANGED programVars

\* the timer callback of runDemoOptimization, run at its due instant or late:
\* the state becomes completed with the demo results (the queries given, or
\* three demo queries when none was given)
DemoResultsTimer(late) ==
  /\ call.method = "runDemoOptimization"
  /\ \E t \in call.timers :
       /\ t.callback = "results"
       /\ \A u \in call.timers : u.callback = "processStep" => t.due <= u.due
       /\ LET at == IF call.clock > t.due + late THEN call.clock ELSE t.due + late
              demoResults == [queryCount |-> IF call.queries > 0 THEN call.queries ELSE 3]
          IN call' = [call EXCEPT
                        !.clock = at,
                        !.optimization =
                           Some([status |-> "completed",
                                 startTime |-> call.optimization[1].startTime,
                                 endTime |-> Some(at), results |-> Some(demoResults),
                                 error |-> None]),
                        !.isRunning = FALSE,
                        !.timers = call.timers \ {t}]
  /\ UNCHANGED programVars

ClientSpec ==
  ClientInit /\ [][runDemoOptimization
                     \/ (\E late \in {0, MaxLate} : processStep(late))
                     \/ (\E late \in {0, MaxLate} : DemoResultsTimer(late))]_vars

\* the orchestrator's job store and the server's sweep as time passes: a job is
\* submitted at some instant and nothing else is asked of the program
StoreSpec ==
  Init /\ [][(\E w \in Workloads : Submit(1, w)) \/ HttpSweep \/ Advance]_vars

\* ------------------------------------------------------------------ claims
Count(j, ev) == Cardinality({i \in 1..Len(trace[j]) : trace[j][i] = ev})
Created(j, slot) == Count(j, CreatedEv(slot))
Deleted(j, slot) == Count(j, DeleteEv(slot))
\* executeOptimization has returned or thrown
Ended(j) == frame[j].pc \in {"done", "rejected", "handled"}
Terminal(j) == j \in DOMAIN jobs /\ jobs[j].status \in {"completed", "failed"}
ForkOf(j, slot) == IF slot = "A" THEN frame[j].forkA ELSE frame[j].forkB
CreationFailed(j) ==
  frame[j].error \in {"Failed to create fork strategy-a", "Failed to create fork strategy-b"}

\* C1: in every state of a job record, results is non-null exactly when the
\* status is completed, error is non-null exactly when the status is failed, and
\* the two are never both non-null.
C1_ResultsErrorMatchStatus ==
  \A j \in DOMAIN jobs :
    /\ (jobs[j].results # None) <=> (jobs[j].status = "completed")
    /\ (jobs[j].error # NULL) <=> (jobs[j].status = "failed")
    /\ ~(jobs[j].results # None /\ jobs[j].error # NULL)

\* one job completed with results while another failed with an error
C1_Witness ==
  \E j, k \in DOMAIN jobs :
    /\ jobs[j].status = "completed" /\ jobs[j].results # None
    /\ jobs[k].status = "failed" /\ jobs[k].error # NULL

\* C2: every submitted job eventually becomes completed or failed (no action of
\* a job waits for a poll): at every moment there is a later one at which every
\* job submitted so far is completed or failed. A job that is completed or
\* failed keeps that status, so none reaches both.
C2_EventuallyTerminal ==
  /\ []<>(\A j \in DOMAIN jobs : Terminal(j))
  /\ [][\A j \in DOMAIN jobs : Terminal(j) => jobs'[j].status = jobs[j].status]_vars

\* every job was submitted and has finished, one completed and one failed
C2_Witness ==
  /\ \A j \in JobIds : Terminal(j) /\ Ended(j)
  /\ \E j, k \in JobIds : jobs[j].status = "completed" /\ jobs[k].status = "failed"

\* C3: on every exit path of executeOptimization, deleteFork is never attempted
\* more often than the fork was created, and once executeOptimization has
\* returned or thrown, each fork has been deleted exactly as often as it was
\* created (once if created, never otherwise).
C3_DeleteOncePerCreatedFork ==
  \A j \in JobIds, slot \in Slots :
    /\ Deleted(j, slot) <= Created(j, slot)
    /\ Created(j, slot) <= 1
    /\ Ended(j) => Deleted(j, slot) = Created(j, slot)

\* C4: every write of a job's status moves one step along running,
\* generating_strategies, creating_forks, applying_strategies, running_tests,
\* analyzing_results, completed, or from a non-terminal status to failed; a
\* completed or failed job keeps its status. This is stated for the
\* orchestrator's jobs (their status writes in program order) and for the jobs
\* of the HTTP server's store.
StatusChain ==
  <<"running", "generating_strategies", "creating_forks", "applying_strategies",
    "running_tests", "analyzing_results", "completed">>
StepOK(a, b) ==
  \/ \E i \in 1..(Len(StatusChain) - 1) : StatusChain[i] = a /\ StatusChain[i + 1] = b
  \/ a \notin {"completed", "failed"} /\ b = "failed"
IsStatusEv(e) == e.kind = "status"
StatusWrites(j) == SelectSeq(trace[j], IsStatusEv)
OrchStatusStepwise ==
  \A j \in JobIds :
    LET w == StatusWrites(j) IN
      /\ Len(w) > 0 => w[1].arg = "running"
      /\ \A i \in 1..(Len(w) - 1) : w[i].arg = w[i + 1].arg \/ StepOK(w[i].arg, w[i + 1].arg)
HttpStatusStepwise ==
  \A h \in DOMAIN hjobs :
    (h \in DOMAIN hjobs' /\ hjobs'[h].status # hjobs[h].status)
      => StepOK(hjobs[h].status, hjobs'[h].status)
C4_StatusStepwise == []OrchStatusStepwise /\ [][HttpStatusStepwise]_vars

\* C5: when the creation of a fork failed the job ends failed, and whenever
\* executeOptimization has ended, deleteFork was attempted for every fork that
\* was created, whatever the other deletion did (returned or threw).
C5_CleanupAfterCreationFailure ==
  \A j \in DOMAIN jobs :
    Ended(j) =>
      /\ CreationFailed(j) => jobs[j].status = "failed"
      /\ \A slot \in Slots : Created(j, slot) >= 1 => Deleted(j, slot) >= 1

\* the creation of fork B failed, the deletion of fork A was attempted and
\* threw, and the job ended failed; and in a job with both forks the deletion of
\* fork A threw and the deletion of fork B was attempted all the same
C5_Witness ==
  /\ \E j \in DOMAIN jobs :
       /\ frame[j].pc = "handled"
       /\ frame[j].error = "Failed to create fork strategy-b"
       /\ Deleted(j, "A") = 1
       /\ Count(j, CleanupErrorEv("A")) = 1
       /\ jobs[j].status = "failed"
  /\ \E k \in DOMAIN jobs :
       /\ Count(k, CleanupErrorEv("A")) = 1
       /\ Created(k, "B") = 1
       /\ Deleted(k, "B") = 1

\* C6: whenever a job's status is set to failed, deleteFork has already been
\* attempted for every fork created before that.
C6_CleanupBeforeFailed ==
  \A j \in JobIds :
    \A i \in 1..Len(trace[j]) :
      trace[j][i] = StatusEv("failed") =>
        \A slot \in Slots :
          (\E c \in 1..(i - 1) : trace[j][c] = CreatedEv(slot))
            => \E d \in 1..(i - 1) : trace[j][d] = DeleteEv(slot)

\* C7: whatever the deletions of the forks did, a job whose analysis finished is
\* and stays completed with its results and no error, and a job whose execution
\* caught an error is and stays failed with that error and no results.
AnalysisFinished(j) == Count(j, StatusEv("analyzing_results")) > 0
C7_CleanupLeavesOutcome ==
  \A j \in DOMAIN jobs :
    /\ AnalysisFinished(j) =>
         /\ jobs[j].status = "completed"
         /\ jobs[j].results # None
         /\ jobs[j].error = NULL
    /\ frame[j].error # NULL =>
         /\ jobs[j].status = "failed"
         /\ jobs[j].error = frame[j].error
         /\ jobs[j].results = None

\* a completed job whose fork deletion threw, and a failed job whose fork
\* deletion threw, both after executeOptimization ended
C7_Witness ==
  /\ \E j \in DOMAIN jobs :
       /\ frame[j].pc = "done" /\ jobs[j].status = "completed"
       /\ Count(j, CleanupErrorEv("A")) + Count(j, CleanupErrorEv("B")) > 0
  /\ \E k \in DOMAIN jobs :
       /\ frame[k].pc = "handled" /\ jobs[k].status = "failed"
       /\ Count(k, CleanupErrorEv("A")) > 0

\* C8: an index created through one fork's connection string is not in the
\* database that any other fork's connection string addresses.
C8_ForksIsolated ==
  \A e \in createdVia :
    \A k \in JobIds, slot \in Slots :
      (<<k, slot>> # <<e[1], e[2]>> /\ ForkOf(k, slot) # None)
        => e[3] \notin db[ForkOf(k, slot)[1].connectionString]

\* C9: no CREATE INDEX of a strategy is executed over the base connection
\* string, and once a job is completed or failed no index it created is in the
\* base database.
C9_BaseUntouched ==
  /\ \A j \in DOMAIN jobs :
       (frame[j].pc \in {"applyA", "applyB"} /\ Len(frame[j].applyResults) > 0)
         => ApplyFork(frame[j]).connectionString # baseConnectionString
  /\ \A e \in createdVia : Terminal(e[1]) => e[3] \notin db[baseConnectionString]

\* C10: runABOptimization returns the job id whatever executeOptimization does;
\* a rejection of executeOptimization is never unhandled, and once it has
\* rejected the job is failed with the rejection's message as its error.
C10_FailureOnlyInRecord ==
  \A j \in DOMAIN jobs :
    /\ ~promise[j].unhandled
    /\ submitted[j] = Some([jobId |-> j, status |-> "started"])
    /\ promise[j].state \in {"rejected", "handled"} =>
         /\ promise[j].reason # NULL
         /\ jobs[j].status = "failed"
         /\ jobs[j].error = promise[j].reason

\* a job whose execution threw: the handler ran and the record shows the failure
C10_Witness ==
  \E j \in DOMAIN jobs :
    /\ promise[j].state = "handled"
    /\ jobs[j].status = "failed"
    /\ jobs[j].error = "Failed to create fork strategy-a"
    /\ submitted[j] # None

\* C11: a submission whose queries are empty, more than 50, or contain an entry
\* that is longer than 5000 characters or holds DROP, DELETE, TRUNCATE, ALTER,
\* GRANT or REVOKE as a word is rejected and stores no job, at every entry
\* point: no job of the orchestrator's store or of the HTTP server's store comes
\* from such a submission.
QueriesAcceptable(queries) ==
  /\ Len(queries) > 0
  /\ Len(queries) <= MaxQueries
  /\ \A i \in 1..Len(queries) : validateQuery(queries[i])
C11_InvalidSubmissionsRejected ==
  /\ \A j \in DOMAIN jobs : QueriesAcceptable(jobs[j].queries)
  /\ \A h \in DOMAIN hjobs : hjobs[h].queries \in 1..MaxQueries

\* C12: a table name that identifier sanitization rejects makes the submission
\* fail with no job created: every stored job has a table name that
\* sanitizeIdentifier accepts, so none fails later because of it.
C12_NoJobForRejectedTable ==
  /\ \A j \in DOMAIN jobs : sanitizeIdentifier(jobs[j].tableName).ok
  /\ \A h \in DOMAIN hjobs : sanitizeIdentifier(hjobs[h].tableName).ok

GetReplied == "request" \in DOMAIN hreply' /\ hreply' # hreply
\* getOptimizationStatus of an id that is not stored throws 'Job not found', and
\* of a stored id returns that job's status, results and error
PollOrchestrator ==
  \A id \in 1..(MaxJobs + 1) :
    LET r == getOptimizationStatus(id) IN
    IF id \in DOMAIN jobs
    THEN /\ r.ok
         /\ Val(r).status = jobs[id].status
         /\ Val(r).results = jobs[id].results
         /\ Val(r).error = jobs[id].error
    ELSE ~r.ok /\ r.msg = "Job not found"
\* the reply to a GET of a stored id is that job as it is stored
RepliedStoredJob ==
  hreply'.request.jobId \in DOMAIN hjobs =>
    /\ hreply'.code = 200
    /\ hreply'.job = Some(hjobs[hreply'.request.jobId])

\* C14 as stated: getStatus of an id that is not in the store yields JobNotFound,
\* and getStatus of a stored id yields that job's current status, results and
\* error, for the orchestrator's getOptimizationStatus and for GET
\* /api/optimize/:jobId.
C14_StatusOrNotFound ==
  /\ []PollOrchestrator
  /\ [][GetReplied =>
          /\ hreply'.request.jobId \notin DOMAIN hjobs => hreply'.body = "JOB_NOT_FOUND"
          /\ RepliedStoredJob]_vars

\* C14 amended: as stated for every id of the form job_<digits>_<a-z0-9>; the
\* GET of an id that is not of that form is answered 400 INVALID_JOB_ID.
C14_StatusOrNotFoundWellFormed ==
  /\ []PollOrchestrator
  /\ [][GetReplied =>
          IF jobIdFormat(hreply'.request.jobId)
          THEN /\ hreply'.request.jobId \notin DOMAIN hjobs =>
                    hreply'.code = 404 /\ hreply'.body = "JOB_NOT_FOUND"
               /\ RepliedStoredJob
          ELSE hreply'.code = 400 /\ hreply'.body = "INVALID_JOB_ID"]_vars

\* a GET of an issued id was answered JOB_NOT_FOUND after the sweep evicted the
\* job, while another issued job is still stored
C14_Witness ==
  /\ "request" \in DOMAIN hreply
  /\ hreply.body = "JOB_NOT_FOUND"
  /\ hreply.request.jobId[1] <= hissued
  /\ hreply.request.jobId \notin DOMAIN hjobs
  /\ DOMAIN hjobs # {}

\* C15: for every improvement percentage p, generateRecommendation returns
\* no_change with confidence low when |p| < 5, and otherwise apply_strategy
\* naming the faster strategy, with confidence high when |p| > 20 and medium
\* when 5 <= |p| <= 20. (p is num/den; den = 0 is NaN or an infinity, for which
\* |p| < 5 is false, and |p| > 20 is true of the infinities only.)
C15_RecommendationPolicy ==
  (call.method = "generateRecommendation" /\ call.result # None) =>
    LET i == call.comparison.improvement
        p == i.percentage
        r == call.result[1]
        finite == p.den # 0
        below5 == finite /\ (p.num < 5 * p.den /\ -p.num < 5 * p.den)
        above20 == IF finite THEN (p.num > 20 * p.den \/ -p.num > 20 * p.den)
                   ELSE p.num # 0
    IN IF below5
       THEN r.action = "no_change" /\ r.confidence = "low"
       ELSE /\ r.action = "apply_strategy"
            /\ r.strategy = i.faster
            /\ above20 => r.confidence = "high"
            /\ (finite /\ ~above20) => r.confidence = "medium"

\* the recommendation for 5.1 percent: apply strategy B with confidence medium
C15_Witness ==
  /\ call.method = "generateRecommendation"
  /\ call.comparison.improvement.percentage = Frac(51, 10)
  /\ call.result = Some([action |-> "apply_strategy", strategy |-> "strategyB",
                          confidence |-> "medium"])

\* the samples that were measured, and the exact mean of their execution times
IsMeasured(r) == r.executionTime # None
Measured(rs) == SelectSeq(rs, IsMeasured)
RECURSIVE Total(_)
Total(rs) == IF rs = <<>> THEN 0 ELSE rs[1].executionTime[1] + Total(Tail(rs))
\* the fractions a and b are the same number
SameNumber(a, b) == a.den # 0 /\ b.den # 0 /\ a.num * b.den = b.num * a.den
Compared == call.method = "compareResults" /\ call.result # None

\* C16: the means compareResults reports are the means of the samples' execution
\* times (stated where every sample has one); the improvement percentage is
\* (meanA - meanB) / meanA * 100 of the reported means (a number when meanA is
\* not 0, and no number otherwise); strategyB is named faster exactly when the
\* percentage is positive, strategyA otherwise, a tie included; and timeSaved
\* is |meanA - meanB|.
C16_ComparisonFormula ==
  Compared =>
    LET c == call.result[1].comparison
        a == c.strategyA.avgExecutionTime
        b == c.strategyB.avgExecutionTime
        p == c.improvement.percentage
        diff == a.num * b.den - b.num * a.den      \* (a - b) * a.den * b.den
    IN /\ (Measured(call.resultsA) = call.resultsA /\ call.resultsA # <<>>) =>
            SameNumber(a, Frac(Total(call.resultsA), Len(call.resultsA)))
       /\ (Measured(call.resultsB) = call.resultsB /\ call.resultsB # <<>>) =>
            SameNumber(b, Frac(Total(call.resultsB), Len(call.resultsB)))
       /\ (a.den # 0 /\ b.den # 0 /\ a.num # 0) =>
            /\ SameNumber(p, Frac(diff * 100, a.num * b.den))
            /\ (c.improvement.faster = "strategyB") <=> (diff > 0 /\ a.num > 0)
            /\ (c.improvement.faster = "strategyA") <=> ~(diff > 0 /\ a.num > 0)
       /\ (a.den = 0 \/ b.den = 0 \/ a.num = 0) =>
            /\ p.den = 0
            /\ c.improvement.faster = "strategyA"
       /\ (a.den # 0 /\ b.den # 0) =>
            SameNumber(c.improvement.timeSaved,
                       Frac(IF diff < 0 THEN -diff ELSE diff, a.den * b.den))
       /\ c.strategyA.queries = Len(call.resultsA)
       /\ c.strategyB.queries = Len(call.resultsB)

\* A's samples 10 and 20, B's samples 20 and 20: means 15 and 20, improvement
\* -100/3 percent, strategyA faster, 5 ms saved
C16_Witness ==
  /\ Compared
  /\ call.resultsA = <<MeasuredSample(SelectQuery, 10), MeasuredSample(SelectQuery, 20)>>
  /\ call.resultsB = <<MeasuredSample(SelectQuery, 20), MeasuredSample(SelectQuery, 20)>>
  /\ SameNumber(call.result[1].comparison.improvement.percentage, Frac(-100, 3))
  /\ call.result[1].comparison.improvement.faster = "strategyA"
  /\ SameNumber(call.result[1].comparison.improvement.timeSaved, Frac(5, 1))

\* C17: a sample with an error marker contributes nothing to a strategy's mean:
\* wherever a strategy has a measured sample, the mean compareResults reports
\* for it is the mean over its measured samples only.
C17_FailedSamplesExcluded ==
  Compared =>
    LET c == call.result[1].comparison IN
    /\ Measured(call.resultsA) # <<>> =>
         SameNumber(c.strategyA.avgExecutionTime,
                    Frac(Total(Measured(call.resultsA)), Len(Measured(call.resultsA))))
    /\ Measured(call.resultsB) # <<>> =>
         SameNumber(c.strategyB.avgExecutionTime,
                    Frac(Total(Measured(call.resultsB)), Len(Measured(call.resultsB))))

Tested == call.method = "runPerformanceTests" /\ call.result # None
\* a run of query i threw (a run is made only if the ones before it returned)
RunFailed(i) == \E k \in 1..Runs : ~call.outcomes[i][k].ok
\* the runs of query i that returned, of those that were made
Returned(i) ==
  SelectSeq([k \in 1..Runs |-> call.outcomes[i][k]],
            LAMBDA o : o.ok)

\* C18: runPerformanceTests returns (it does not throw) exactly one sample per
\* input query, in input order; the sample of a query with a failed run carries
\* an error marker and no times, and the sample of every query whose runs all
\* returned is measured, whatever the other queries did.
C18_OneSamplePerQuery ==
  Tested =>
    LET r == call.result[1] IN
    /\ r.ok
    /\ Len(Val(r)) = Len(call.queries)
    /\ \A i \in 1..Len(call.queries) :
         /\ Val(r)[i].query = call.queries[i]
         /\ RunFailed(i) => /\ Val(r)[i].error # NULL
                             /\ Val(r)[i].executionTime = None
         /\ ~RunFailed(i) => /\ Val(r)[i].error = NULL
                              /\ Val(r)[i].executionTime # None

\* two queries: the first one's second run threw and its sample carries the
\* error, the second one was measured all the same
C18_Witness ==
  /\ Tested
  /\ Len(call.queries) = 2
  /\ call.outcomes[1][1].ok /\ ~call.outcomes[1][2].ok
  /\ Val(call.result[1])[1].error = "explain failed"
  /\ Val(call.result[1])[2].error = NULL
  /\ Val(call.result[1])[2].executionTime = Some(Frac(36, 3))

\* C19: each query is run 3 times, and whenever at least one of the 3 runs
\* succeeds the sample carries no error marker, its executionTime and
\* planningTime are the means over the successful runs only, and its plan is the
\* most recent run's plan.
C19_MeanOfSuccessfulRuns ==
  Tested =>
    \A i \in 1..Len(call.queries) :
      LET sample == Val(call.result[1])[i]
          good == Returned(i)
      IN good # <<>> =>
           /\ sample.error = NULL
           /\ sample.executionTime # None
           /\ SameNumber(sample.executionTime[1],
                         Frac(SumField(good, "executionTime"), Len(good)))
           /\ SameNumber(sample.planningTime[1],
                         Frac(SumField(good, "planningTime"), Len(good)))
           /\ sample.plan = good[Len(good)].plan

Applying(j) == j \in DOMAIN jobs /\ frame[j].pc \in {"applyA", "applyB"}

\* C20: applyIndexStrategy attempts the indexes of its strategy in order and has
\* one entry per index, created or failed, when it returns; a CREATE INDEX that
\* failed is followed by the attempts on the later indexes, and the job is not
\* made to fail by it (it is still applying its strategies).
C20_EveryIndexAttempted ==
  /\ [](\A j \in JobIds :
          Applying(j) =>
            LET indexes == ApplyStrategy(frame[j]).indexes
                results == frame[j].applyResults
            IN /\ Len(results) <= Len(indexes)
               /\ \A i \in 1..Len(results) :
                    /\ results[i].index = indexes[i].name
                    /\ results[i].status \in {"created", "failed"}
               /\ jobs[j].status = "applying_strategies"
               /\ jobs[j].error = NULL)
  /\ [][\A j \in JobIds :
          (Applying(j) /\ frame'[j].pc # frame[j].pc) =>
            /\ Len(frame[j].applyResults) = Len(ApplyStrategy(frame[j]).indexes)
            /\ frame'[j].pc \in {"applyB", "testA"}
            /\ jobs'[j].status \in {"applying_strategies", "running_tests"}]_vars

\* strategy A's first CREATE INDEX failed and its second one was attempted and
\* created the index
C20_Witness ==
  \E j \in DOMAIN jobs :
    /\ frame[j].pc = "applyA"
    /\ Len(frame[j].applyResults) = 2
    /\ frame[j].applyResults[1].status = "failed"
    /\ frame[j].applyResults[2].status = "created"
    /\ <<j, "A", frame[j].applyResults[2].index>> \in createdVia

\* the keywords the contract names
NamedKeywords ==
  { <<"S","E","L","E","C","T">>, <<"I","N","S","E","R","T">>, <<"U","P","D","A","T","E">>,
    <<"D","E","L","E","T","E">>, <<"D","R","O","P">>, <<"C","R","E","A","T","E">>,
    <<"A","L","T","E","R">>, <<"T","A","B","L","E">>, <<"D","A","T","A","B","A","S","E">> }

RECURSIVE Stripped(_)
\* s without its characters outside [A-Za-z0-9_]
Stripped(s) ==
  IF s = <<>> THEN <<>>
  ELSE IF IsLower(Head(s)) \/ IsUpper(Head(s)) \/ Head(s) \in Digits \/ Head(s) = "_"
  THEN <<Head(s)>> \o Stripped(Tail(s))
  ELSE Stripped(Tail(s))

\* v matches ^[A-Za-z_][A-Za-z0-9_]*$
WellFormedIdentifier(v) ==
  /\ Len(v) > 0
  /\ IsLower(v[1]) \/ IsUpper(v[1]) \/ v[1] = "_"
  /\ \A i \in 1..Len(v) : IsLower(v[i]) \/ IsUpper(v[i]) \/ v[i] \in Digits \/ v[i] = "_"

\* a call of sanitizeIdentifier of the given agents has returned or thrown
Sanitized(agents) ==
  /\ call.method = "sanitizeIdentifier"
  /\ call.agent \in agents
  /\ call.result # None

\* C21: IndexTunerAgent.sanitizeIdentifier(s) either raises or returns s without
\* its characters outside [A-Za-z0-9_], and what it returns matches
\* ^[A-Za-z_][A-Za-z0-9_]*$ (so it is not empty and does not start with a digit)
\* and is not, in any case of its letters, one of the nine reserved keywords.
C21_SanitizeContract ==
  Sanitized({"IndexTunerAgent"}) =>
    LET r == call.result[1] IN
    r.ok => /\ Val(r) = Stripped(call.identifier)
            /\ WellFormedIdentifier(Val(r))
            /\ toUpperCase(Val(r)) \notin NamedKeywords

\* a string with a character outside the class was sanitized and returned
\* without it
C21_Witness ==
  /\ Sanitized({"IndexTunerAgent"})
  /\ call.result[1].ok
  /\ Val(call.result[1]) # call.identifier
  /\ call.identifier # InjectionName

\* C22: when sanitizeIdentifier (of either agent) returns v, sanitizeIdentifier(v)
\* returns v and does not raise.
C22_SanitizeIdempotent ==
  (Sanitized(Agents) /\ call.again # None) => call.again = call.result

\* the second call was made on a value that differs from the first call's input
C22_Witness ==
  /\ Sanitized(Agents)
  /\ call.again # None
  /\ call.again[1].ok
  /\ Val(call.again[1]) # call.identifier

\* the call is generateIndexStrategies and its analysis has returned or raised
Analysed == call.method = "generateIndexStrategies" /\ call.analysis # None

\* some token of some query ends, in lower case, with the keyword
Mentions(queries, kw) ==
  \E q \in 1..Len(queries) : \E i \in 1..Len(queries[q]) :
    EndsWith(toLowerCase(queries[q][i]), kw)

\* C28: analyzeQueries returns a pattern set for every sequence of query texts
\* and never raises: every where- and join-column it reports is a word, every
\* order-by column is a non-empty text, and queries that do not mention where,
\* order or join yield an empty whereColumns, orderByColumns or joinColumns.
C28_AnalyzeNeverRaises ==
  Analysed =>
    /\ call.analysis[1].ok
    /\ LET patterns == Val(call.analysis[1]).patterns IN
         /\ \A i \in 1..Len(patterns.whereColumns) : IsWord(patterns.whereColumns[i])
         /\ \A i \in 1..Len(patterns.joinColumns) : IsWord(patterns.joinColumns[i])
         /\ \A i \in 1..Len(patterns.orderByColumns) : patterns.orderByColumns[i] # <<>>
         /\ ~Mentions(call.queries, Kw.where) => patterns.whereColumns = <<>>
         /\ ~Mentions(call.queries, Kw.order) => patterns.orderByColumns = <<>>
         /\ ~Mentions(call.queries, Kw.join) => patterns.joinColumns = <<>>

\* the text that is no query was analysed: no where-column, and the one
\* order-by entry that is not empty or desc
C28_Witness ==
  /\ Analysed
  /\ call.queries = <<AnalyzerTexts.broken>>
  /\ call.analysis[1].ok
  /\ Val(call.analysis[1]).patterns =
       [whereColumns |-> <<>>, orderByColumns |-> << <<"x", ";">> >>, joinColumns |-> <<>>]


\* the same instance has analysed the same queries a second time
AnalysedAgain == Analysed /\ call.again # None

\* C29: analysing the same queries again on the same IndexTunerAgent, right
\* away or after it analysed another text, yields the same whereColumns,
\* orderByColumns and joinColumns as the first time; for the single query
\* SELECT * FROM users WHERE email = 'a@example.com'; they are {email}, {}, {}.
C29_AnalysisDeterministic ==
  /\ AnalysedAgain =>
       /\ call.again[1].ok = call.analysis[1].ok
       /\ call.again[1].ok =>
            Val(call.again[1]).patterns = Val(call.analysis[1]).patterns
  /\ Analysed /\ call.queries = <<AnalyzerTexts.email>> =>
       /\ call.analysis[1].ok
       /\ Val(call.analysis[1]).patterns =
            [whereColumns |-> << <<"e","m","a","i","l">> >>, orderByColumns |-> <<>>,
             joinColumns |-> <<>>]

\* the email query was analysed, then the orders query, then the email query
\* again, which found the column email and nothing else
C29_Witness ==
  /\ AnalysedAgain
  /\ call.queries = <<AnalyzerTexts.email>>
  /\ call.between = Some(Some(AnalyzerTexts.orders))
  /\ Val(call.again[1]).patterns.whereColumns = << <<"e","m","a","i","l">> >>
  /\ Val(call.again[1]).patterns.orderByColumns = <<>>


\* the fixed text of the CREATE INDEX templates of the two strategies
TemplateText ==
  {"CREATE INDEX ", "idx_", "_", "_composite", "_partial", " ON ", " (", ", ", ")",
   ") WHERE ", " IS NOT NULL", ";"}

\* v is made of characters of [A-Za-z0-9_] only
OnlyWordChars(v) ==
  \A i \in 1..Len(v) : IsLower(v[i]) \/ IsUpper(v[i]) \/ v[i] \in Digits \/ v[i] = "_"

\* the statement is template text and non-empty identifiers of [A-Za-z0-9_],
\* and its only semicolon is its last character
SingleStatement(sql) ==
  /\ sql # <<>>
  /\ sql[Len(sql)] = Lit(";")
  /\ \A k \in 1..Len(sql) :
       IF "lit" \in DOMAIN sql[k]
       THEN sql[k].lit \in TemplateText /\ (sql[k].lit = ";" => k = Len(sql))
       ELSE sql[k].id # <<>> /\ OnlyWordChars(sql[k].id)

\* the messages of the errors sanitizeIdentifier raises
IdentifierErrors ==
  {"Invalid identifier", "Identifier cannot start with a number",
   "Cannot use SQL reserved keyword as identifier",
   "Identifier cannot be empty after sanitization"}

\* the call is generateIndexStrategies and both strategies were generated (or
\* their generation raised)
Generated == call.method = "generateIndexStrategies" /\ call.result # None

\* C24: for every table name and all queries, generating a strategy either
\* raises an identifier error or yields candidates whose sql is one statement of
\* template text and identifiers of [A-Za-z0-9_]; for the table name
\* `users; DROP TABLE x` the table identifier in it is usersDROPTABLEx.
C24_SingleStatementSql ==
  Generated =>
    \A s \in {call.result[1].strategyA, call.result[1].strategyB} :
      IF s.ok
      THEN \A i \in 1..Len(Val(s).indexes) :
             LET sql == Val(s).indexes[i].sql IN
             /\ SingleStatement(sql)
             /\ call.tableName = InjectionName =>
                  \A k \in 1..Len(sql) :
                    sql[k] = Lit(" ON ") =>
                      sql[k + 1] = Hole(<<"u","s","e","r","s","D","R","O","P",
                                          "T","A","B","L","E","x">>)
      ELSE s.msg \in IdentifierErrors

\* for the table name `users; DROP TABLE x` and the orders query, strategy B
\* was generated with its composite and its partial index
C24_Witness ==
  /\ Generated
  /\ call.tableName = InjectionName
  /\ call.queries = <<AnalyzerTexts.orders>>
  /\ call.result[1].strategyB.ok
  /\ Len(Val(call.result[1].strategyB).indexes) = 2


\* sanitizeIdentifier has no reason to reject v
Acceptable(v) ==
  /\ WellFormedIdentifier(Stripped(v))
  /\ toUpperCase(Stripped(v)) \notin NamedKeywords

\* the where-columns a basic strategy indexes: the first two, in the order of
\* their discovery
IndexedColumns ==
  LET whereColumns == Val(call.analysis[1]).patterns.whereColumns IN
  SubSeq(whereColumns, 1, IF Len(whereColumns) < 2 THEN Len(whereColumns) ELSE 2)

\* strategy A returned one btree candidate for each of the indexed columns, the
\* i-th over the i-th column alone
OneCandidatePerColumn ==
  LET a == call.result[1].strategyA IN
  /\ a.ok
  /\ Len(Val(a).indexes) = Len(IndexedColumns)
  /\ \A i \in 1..Len(IndexedColumns) :
       LET index == Val(a).indexes[i] IN
       /\ index.type = "btree"
       /\ index.columns = <<IndexedColumns[i]>>
       /\ \E t \in {Stripped(call.tableName)} :
            index.sql = <<Lit("CREATE INDEX "), Lit("idx_"), Hole(t), Lit("_"),
                          Hole(IndexedColumns[i]), Lit(" ON "), Hole(t), Lit(" ("),
                          Hole(IndexedColumns[i]), Lit(")"), Lit(";")>>

SentStatements ==
  IF call.method = "generateIndexStrategies"
  THEN (IF call.result # None /\ call.result[1].returned.ok
        THEN LET s == Val(call.result[1].returned) IN
             {s.strategyA.indexes[i].sql : i \in 1..Len(s.strategyA.indexes)}
               \cup {s.strategyB.indexes[i].sql : i \in 1..Len(s.strategyB.indexes)}
        ELSE {})
         \cup (IF call.dropped # None
               THEN {call.dropped[1][i] : i \in 1..Len(call.dropped[1])}
               ELSE {})
  ELSE IF call.sent # None THEN {call.sent[1][i] : i \in 1..Len(call.sent[1])}
  ELSE {}

\* C23: every identifier interpolated into a statement sent to the database, by
\* the strategy generator, by cleanupIndexes or by an MCP index tool, is one that
\* sanitization returns: it matches ^[A-Za-z_][A-Za-z0-9_]*$.
C23_EveryIdentifierSanitized ==
  \A sql \in SentStatements :
    \A k \in 1..Len(sql) : "id" \in DOMAIN sql[k] => WellFormedIdentifier(sql[k].id)


\* C25: no job record older than JOB_TTL plus one sweep interval remains in a
\* store that holds job records: the server's global.jobs or the orchestrator's
\* jobs.
C25_NoRecordOutlivesRetention ==
  /\ \A id \in DOMAIN hjobs : now - hjobs[id].startTime <= JOB_TTL + SweepInterval
  /\ \A j \in DOMAIN jobs : now - jobs[j].startTime <= JOB_TTL + SweepInterval


\* runPerformanceTests on fork A has been called by job j and has not returned
MeasuringA(j) == j \in DOMAIN jobs /\ frame[j].pc = "testA"
\* runPerformanceTests on fork B has been called by job j
StartedB(j) == j \in DOMAIN jobs /\ frame[j].pc = "testB"

\* C26: within a job the performance tests of strategy A and strategy B run
\* simultaneously: while strategy A's measurement has not finished, strategy
\* B's has been started.
C26_TestsRunSimultaneously ==
  \A j \in JobIds : MeasuringA(j) => StartedB(j)


\* a step of job k, or the submission that creates it
StepOf(k) == Step(k) \/ \E w \in Workloads : Submit(k, w)

\* C27: a job record is modified only by that job's own execution (submitting,
\* executing or failing another job leaves it as it is, and a poll only reads),
\* and running jobs do not wait for one another: a job that has not ended can
\* resume whatever state the other jobs are in.
C27_JobsIndependent ==
  /\ [][\A j \in DOMAIN jobs : \A k \in JobIds \ {j} :
          StepOf(k) => (j \in DOMAIN jobs' /\ jobs'[j] = jobs[j])]_vars
  /\ [](\A j \in DOMAIN jobs : ~Ended(j) => ENABLED Step(j))

\* the job submitted second has reached its terminal state while the job
\* submitted first is still running
C27_Witness ==
  /\ Terminal(2)
  /\ Ended(2)
  /\ 1 \in DOMAIN jobs
  /\ ~Ended(1)
  /\ jobs[1].status \notin {"completed", "failed"}


\* the columns of the composite index an advanced strategy is to hold: the
\* first two where-columns followed by the first order-by column, or none when
\* either set is empty
CompositeColumns ==
  LET patterns == Val(call.analysis[1]).patterns IN
  IF patterns.whereColumns = <<>> \/ patterns.orderByColumns = <<>> THEN <<>>
  ELSE IndexedColumns \o <<patterns.orderByColumns[1]>>

\* the column of the partial index an advanced strategy is to hold: the first
\* where-column, if there is one
PartialColumn == SubSeq(IndexedColumns, 1, IF IndexedColumns = <<>> THEN 0 ELSE 1)

\* the identifiers in the column list of a statement: those between ( and )
ColumnList(sql) ==
  LET open == CHOOSE k \in 1..Len(sql) : sql[k] = Lit(" (")
      close == CHOOSE e \in 1..Len(sql) : sql[e] \in {Lit(")"), Lit(") WHERE ")}
      ids == SelectSeq(SubSeq(sql, open + 1, close - 1), LAMBDA part : "id" \in DOMAIN part)
  IN [n \in 1..Len(ids) |-> ids[n].id]

\* strategy B returned the composite candidate if it is to hold one, then the
\* partial candidate if it is to hold one, and no other
CompositeAndPartial ==
  LET b == call.result[1].strategyB
      c == IF CompositeColumns = <<>> THEN 0 ELSE 1
      p == Len(PartialColumn)
  IN /\ b.ok
     /\ Len(Val(b).indexes) = c + p
     /\ c = 1 =>
          LET index == Val(b).indexes[1] IN
          /\ index.type = "btree"
          /\ index.columns = CompositeColumns
          /\ ColumnList(index.sql) =
               [k \in 1..Len(CompositeColumns) |-> Stripped(CompositeColumns[k])]
          /\ \A k \in 1..Len(index.sql) : index.sql[k] # Lit(") WHERE ")
     /\ p = 1 =>
          LET index == Val(b).indexes[c + 1] IN
          /\ index.type = "btree_partial"
          /\ index.columns = PartialColumn
          /\ ColumnList(index.sql) = PartialColumn
          /\ SubSeq(index.sql, Len(index.sql) - 3, Len(index.sql)) =
               <<Lit(") WHERE "), Hole(PartialColumn[1]), Lit(" IS NOT NULL"), Lit(";")>>

RECURSIVE Walk(_)
\* every node of a plan tree: the node and the nodes of its child plans
Walk(node) ==
  <<node>> \o
    (IF "Plans" \in DOMAIN node
     THEN LET RECURSIVE each(_)
              each(plans) == IF plans = <<>> THEN <<>>
                             ELSE Walk(Head(plans)) \o each(Tail(plans))
          IN each(node["Plans"])
     ELSE <<>>)

RECURSIVE SumOver(_, _)
\* the sum of a counter over a sequence of nodes; a node without it adds 0
SumOver(nodes, key) ==
  IF nodes = <<>> THEN 0
  ELSE (IF key \in DOMAIN Head(nodes) THEN Head(nodes)[key] ELSE 0) + SumOver(Tail(nodes), key)

\* C32: for the plan explainAnalyze returns, extractPlanMetrics counts the
\* Index Scan, Index Only Scan and Bitmap Index Scan nodes of the whole plan
\* tree as indexScans and its Seq Scan nodes as seqScans, and sums the shared
\* hit and read block counters of all its nodes as bufferHits and bufferReads.
C32_MetricsOfWholeTree ==
  (call.method = "extractPlanMetrics" /\ call.result # None) =>
    LET nodes == Walk(call.queryPlan[1]["Plan"])
        kinds(types) == Len(SelectSeq(nodes, LAMBDA n : n["Node Type"] \in types))
        metrics == call.result[1]
    IN /\ metrics.indexScans =
            kinds({"Index Scan", "Index Only Scan", "Bitmap Index Scan"})
       /\ metrics.seqScans = kinds({"Seq Scan"})
       /\ metrics.bufferHits = SumOver(nodes, "Shared Hit Blocks")
       /\ metrics.bufferReads = SumOver(nodes, "Shared Read Blocks")


\* C33: setting a terminal status is the last thing a job's execution does:
\* in every state in which the status is completed or failed, endTime is set and
\* deleteFork has been attempted for every fork created, and no later step
\* changes the record or attempts another deletion.
C33_TerminalStatusIsLast ==
  /\ [](\A j \in JobIds :
          Terminal(j) =>
            /\ jobs[j].endTime > 0
            /\ \A slot \in Slots : Created(j, slot) > 0 => Deleted(j, slot) > 0)
  /\ [][\A j \in JobIds :
          Terminal(j) =>
            /\ jobs'[j] = jobs[j]
            /\ \A slot \in Slots : Deleted(j, slot)' = Deleted(j, slot)]_vars


\* POST /api/optimize would accept the call's queries and table name: between
\* one and MaxQueries texts, none longer than MaxQueryLength characters or with
\* a dangerous keyword as a whole word, and a table name of [A-Za-z0-9_] only
Submittable ==
  /\ Len(call.queries) \in 1..MaxQueries
  /\ \A i \in 1..Len(call.queries) :
       LET text == call.queries[i] IN
       /\ SumOver([k \in 1..Len(text) |-> [n |-> Len(text[k])]], "n") <= MaxQueryLength
       /\ \A k \in 1..Len(text) : toUpperCase(text[k]) \notin dangerousKeywords
  /\ call.tableName # <<>>
  /\ OnlyWordChars(call.tableName)

\* C34: for a table name sanitizeIdentifier accepts and queries that pass
\* submission validation, generating the strategies succeeds: no column the
\* analyzer extracted makes sanitizeIdentifier raise.
C34_GenerationSucceeds ==
  (Generated /\ Submittable /\ Acceptable(call.tableName)) => call.result[1].returned.ok


\* C35: the validator's sanitizeIdentifier and the index tuner's agree on every
\* input: whatever one of them did with an identifier, the other raises if and
\* only if it raised, and returns the same string if it returned.
C35_SanitizersAgree ==
  (call.method = "sanitizeIdentifier" /\ call.result # None) =>
    \A other \in Agents :
      LET mine == call.result[1]
          theirs == sanitizeIdentifierOf(other, call.identifier)
      IN /\ theirs.ok = mine.ok
         /\ mine.ok => Val(theirs) = Val(mine)


\* C36: every job id POST /api/optimize returns passes the id-format check of
\* GET /api/optimize/:jobId, so that the GET of a stored job is never answered
\* INVALID_JOB_ID.
C36_ReturnedIdIsPollable ==
  /\ "jobId" \in DOMAIN hreply => jobIdFormat(hreply.jobId)
  /\ ("request" \in DOMAIN hreply /\ hreply.request.jobId \in DOMAIN hjobs) =>
       hreply.body # "INVALID_JOB_ID"


\* C37: for every pair of means the completion timer can draw, the recorded
\* recommendation is the policy's for the recorded improvement percentage p:
\* no_change with confidence low when |p| < 5, and otherwise apply_strategy
\* naming the strategy with the smaller mean, with confidence high when
\* |p| > 20 and medium otherwise.
C37_DemoRecommendationFollowsPolicy ==
  (call.method = "completion" /\ call.results # None) =>
    LET c == call.results[1].comparison
        p == c.percentage
        r == call.results[1].recommendation
    IN IF Lt(AbsF(p), 5)
       THEN r.action = "no_change" /\ r.confidence = "low"
       ELSE /\ r.action = "apply_strategy"
            /\ r.strategy = (IF c.avgTimeB < c.avgTimeA THEN "strategyB" ELSE "strategyA")
            /\ r.confidence = (IF Gt(AbsF(p), 20) THEN "high" ELSE "medium")

\* the means 45 and 36 were drawn: the improvement is exactly 20 percent and
\* the recommendation is to apply strategy B with confidence medium
C37_Witness ==
  /\ call.method = "completion"
  /\ call.avgTimeA = 45 /\ call.avgTimeB = 36
  /\ call.results # None
  /\ SameNumber(call.results[1].comparison.percentage, Frac(20, 1))
  /\ call.results[1].recommendation =
       [action |-> "apply_strategy", strategy |-> "strategyB", confidence |-> "medium"]


\* the client's optimization state is completed with results
ShowsResults ==
  /\ call.method = "runDemoOptimization"
  /\ call.optimization # None
  /\ call.optimization[1].status = "completed"
  /\ call.optimization[1].results # None

\* C38: in the client's demo run, once the optimization state is completed
\* with its results, every later state is completed with non-null results: no
\* progress update replaces it.
C38_ResultsStay == [][ShowsResults => ShowsResults']_vars


====
